---- MODULE Spec2Model ----
(***************************************************************************)
(* Model of orbit-strategies-unofficial: the RetryPolicy (backoff and      *)
(* retry sequencing) and the CachePolicy (query freshness tracking) that   *)
(* the remote strategies share, and the PessimisticStrategy and the        *)
(* OptimisticStrategy that sit between a source and a target.              *)
(*                                                                         *)
(* Objects are records whose fields carry the names of the TypeScript      *)
(* fields.  The methods are operators from the object (and the event       *)
(* loop's timers) to their value after the call, so that a handler which   *)
(* calls several of them is one action.                                    *)
(***************************************************************************)
EXTENDS Integers, Sequences, FiniteSets, TLC

VARIABLES
    retryPolicy,    \* the RetryPolicy instance: options and _retries, _retryTimer
    timers,         \* the event loop's timeouts: [next, pending]
    fired,          \* history: ids of the timeouts whose callback has been invoked
    cancelled,      \* history: ids of the timeouts that were pending when reset() ran
    delayLog,       \* history: the retries scheduled since construction or the last reset()
    rpLast,         \* history: the last operation on the retry policy
    cachePolicy,    \* the CachePolicy instance: options and _loadedExpressions
    cache,          \* the records the memory source's SyncRecordCache holds
    now,            \* Date.now()
    everLoaded,     \* history: the cache keys load() has recorded since construction
    cpLast,         \* history: the last operation on the cache policy
    strategy,       \* the strategy: its class, options, predicates and _onLine
    navigatorOnLine,\* navigator.onLine
    targetQueue,    \* target.requestQueue: [tasks, halted, next]
    request,        \* the request the source is processing or processed last
    hints,          \* the data field of the hints object of that request
    stLast          \* history: what the last step of the strategy or its target did

rpVars == <<retryPolicy, timers, fired, cancelled, delayLog, rpLast>>
cpVars == <<cachePolicy, cache, now, everLoaded, cpLast>>
stVars == <<strategy, navigatorOnLine, targetQueue, request, hints, stLast>>
vars == <<rpVars, cpVars, stVars>>

\* The value of _retryTimer while it holds no timeout (undefined); the ids setTimeout
\* returns are positive.
NoTimer == 0

Min(a, b) == IF a <= b THEN a ELSE b

(***************************************************************************)
(* Bounds of the model.                                                    *)
(***************************************************************************)
\* Timeout ids handed out by setTimeout in one behaviour.
MaxTimerId == 8
\* Pulls and pushes a pessimistic strategy issues to its target in one behaviour.
MaxRequests == 2
\* Pulls and pushes an optimistic strategy issues to its target in one behaviour; its
\* listeners run again every time the target fails a request again.
MaxOptimisticRequests == 2
\* Timeout ids handed out by setTimeout to the retry policy of a strategy.
MaxRetryTimerId == 2

(***************************************************************************)
(* RetryPolicy (src/src/retry-policy.ts)                                   *)
(***************************************************************************)
\* Defaults of the class fields.
DefaultRetries == 5
DefaultDelay == 200
DefaultMaxDelay == 3200
DefaultFactor == 2

\* The options objects the constructor is given; 0 stands for an absent
\* (or falsy) option, which leaves the default in place.
RetryPolicyOptionsSet ==
    { [enabled |-> e, retries |-> r, delay |-> d.delay, maxDelay |-> d.maxDelay, factor |-> 0] :
        e \in BOOLEAN, r \in {0, 2},
        d \in { [delay |-> 0, maxDelay |-> 0], [delay |-> 100, maxDelay |-> 2000] } }

\* constructor(options)
NewRetryPolicy(options) ==
    [ enabled     |-> options.enabled,
      retries     |-> IF options.retries # 0 THEN options.retries ELSE DefaultRetries,
      delay       |-> IF options.delay # 0 THEN options.delay ELSE DefaultDelay,
      maxDelay    |-> IF options.maxDelay # 0 THEN options.maxDelay ELSE DefaultMaxDelay,
      factor      |-> IF options.factor # 0 THEN options.factor ELSE DefaultFactor,
      _retries    |-> 0,
      _retryTimer |-> NoTimer ]

\* A canRetry with an inclusive comparison.
canRetryInclusive(rp) == rp.enabled /\ rp._retries <= rp.retries

\* get canRetry()
canRetry(rp) == rp.enabled /\ rp._retries < rp.retries

\* The loop of currentDelay: delay multiplied by factor, i times.
RECURSIVE DelayLoop(_, _, _)
DelayLoop(delay, factor, i) ==
    IF i = 0 THEN delay ELSE DelayLoop(delay * factor, factor, i - 1)

\* A currentDelay without the ceiling.
currentDelayUncapped(rp) == DelayLoop(rp.delay, rp.factor, rp._retries)

\* get currentDelay()
currentDelay(rp) == Min(DelayLoop(rp.delay, rp.factor, rp._retries), rp.maxDelay)

\* setTimeout(callback, delay): a new pending timeout; the id is returned as tm.next of
\* the argument.
setTimeout(tm, callback, delay) ==
    [ next    |-> tm.next + 1,
      pending |-> tm.pending \cup { [id |-> tm.next, callback |-> callback, delay |-> delay] } ]

\* clearTimeout(id): the timeout with this id, if still pending, is dropped.
clearTimeout(tm, id) ==
    [ tm EXCEPT !.pending = { t \in @ : t.id # id } ]

\* A retry() that schedules although a retry is pending.
retryUnguarded(rp, tm, callback, delay) ==
    [ rp |-> [ rp EXCEPT !._retryTimer = tm.next, !._retries = @ + 1 ],
      tm |-> setTimeout(tm, callback, IF delay # 0 THEN delay ELSE currentDelay(rp)) ]

\* A retry() that forgets to count the attempt.
retryUncounted(rp, tm, callback, delay) ==
    IF rp._retryTimer # NoTimer
    THEN [ rp |-> rp, tm |-> tm ]
    ELSE [ rp |-> [ rp EXCEPT !._retryTimer = tm.next ],
           tm |-> setTimeout(tm, callback, IF delay # 0 THEN delay ELSE currentDelay(rp)) ]

\* A retry() that drops the pending timeout and schedules again, as the older
\* RetryPolicy of src/unnamed/part_001 does.
retryRescheduling(rp, tm, callback, delay) ==
    [ rp |-> [ rp EXCEPT !._retryTimer = tm.next, !._retries = @ + 1 ],
      tm |-> setTimeout(clearTimeout(tm, rp._retryTimer), callback,
                        IF delay # 0 THEN delay ELSE currentDelay(rp)) ]

\* A retry() that does nothing once canRetry is false.
retryCapped(rp, tm, callback, delay) ==
    IF rp._retryTimer # NoTimer \/ ~canRetry(rp)
    THEN [ rp |-> rp, tm |-> tm ]
    ELSE [ rp |-> [ rp EXCEPT !._retryTimer = tm.next, !._retries = @ + 1 ],
           tm |-> setTimeout(tm, callback, IF delay # 0 THEN delay ELSE currentDelay(rp)) ]

\* retry(callback, delay?): delay 0 stands for an absent (or falsy) argument.
retry(rp, tm, callback, delay) ==
    IF rp._retryTimer # NoTimer
    THEN [ rp |-> rp, tm |-> tm ]
    ELSE [ rp |-> [ rp EXCEPT !._retryTimer = tm.next, !._retries = @ + 1 ],
           tm |-> setTimeout(tm, callback, IF delay # 0 THEN delay ELSE currentDelay(rp)) ]

\* A reset() that forgets the timeout without clearing it.
resetNoClear(rp, tm) ==
    [ rp |-> [ rp EXCEPT !._retries = 0, !._retryTimer = NoTimer ],
      tm |-> tm ]

\* reset()
reset(rp, tm) ==
    [ rp |-> [ rp EXCEPT !._retries = 0, !._retryTimer = NoTimer ],
      tm |-> clearTimeout(tm, rp._retryTimer) ]

\* The callbacks handed to retry(): cbPlain does nothing to the policy, cbRetry calls
\* retry() again from inside the callback, with itself as the callback.
Callbacks == {"cbPlain", "cbRetry"}

\* The explicit delays handed to retry(); 0 is the absent argument.
ExplicitDelays == {0, 50}

\* An arrow function that runs the callback first and clears the timer field after.
timeoutFiresCallbackFirst(rp, tm, t) ==
    LET rest == [ tm EXCEPT !.pending = @ \ {t} ]
        ran  == IF t.callback = "cbRetry"
                THEN retry(rp, rest, "cbRetry", 0)
                ELSE [ rp |-> rp, tm |-> rest ]
    IN  [ rp |-> [ ran.rp EXCEPT !._retryTimer = NoTimer ], tm |-> ran.tm ]

\* The arrow function retry() hands to setTimeout, run when timeout t fires:
\* the timer field is cleared, then the callback runs.
timeoutFires(rp, tm, t) ==
    LET cleared == [ rp EXCEPT !._retryTimer = NoTimer ]
        rest    == [ tm EXCEPT !.pending = @ \ {t} ]
    IN  IF t.callback = "cbRetry"
        THEN retry(cleared, rest, "cbRetry", 0)
        ELSE [ rp |-> cleared, tm |-> rest ]

\* The timeouts of new that old did not have.
Scheduled(old, new) == new.pending \ old.pending

\* delayLog after a call that took the timers from old to new.
Logged(old, new, explicit) ==
    IF Scheduled(old, new) = {}
    THEN delayLog
    ELSE LET t == CHOOSE t \in Scheduled(old, new) : TRUE
         IN  Append(delayLog, [delay |-> t.delay, explicit |-> explicit])

(***************************************************************************)
(* Operations on the retry policy.                                         *)
(***************************************************************************)
Retry(callback, delay) ==
    /\ timers.next <= MaxTimerId
    /\ LET r == retry(retryPolicy, timers, callback, delay)
       IN  /\ retryPolicy' = r.rp
           /\ timers' = r.tm
           /\ delayLog' = Logged(timers, r.tm, delay # 0)
    /\ rpLast' = "retry"
    /\ UNCHANGED <<fired, cancelled, cpVars, stVars>>

Reset ==
    /\ LET r == reset(retryPolicy, timers)
       IN  /\ retryPolicy' = r.rp
           /\ timers' = r.tm
    /\ cancelled' = cancelled \cup { t.id : t \in timers.pending }
    /\ delayLog' = << >>
    /\ rpLast' = "reset"
    /\ UNCHANGED <<fired, cpVars, stVars>>

TimerFires(t) ==
    /\ t \in timers.pending
    /\ timers.next <= MaxTimerId
    /\ LET r == timeoutFires(retryPolicy, timers, t)
       IN  /\ retryPolicy' = r.rp
           /\ timers' = r.tm
           /\ delayLog' = Logged([timers EXCEPT !.pending = @ \ {t}], r.tm, FALSE)
    /\ fired' = fired \cup {t.id}
    /\ rpLast' = "fire"
    /\ UNCHANGED <<cancelled, cpVars, stVars>>

(***************************************************************************)
(* CachePolicy (src/src/cache-policy.ts)                                   *)
(***************************************************************************)
\* Record identities and the relationship the expressions name.  Types, ids and
\* relationship names hold no ":".
P1 == [type |-> "planet", id |-> "p1"]
P2 == [type |-> "planet", id |-> "p2"]
NoRecord == [type |-> "", id |-> ""]
Moons == "moons"

\* Query expressions.  Every expression carries the same fields; a field its op does
\* not have holds NoRecord, "" or << >>.  byIds tells a findRecords with a list of
\* identities from one with a filter only (records undefined).
FindRecord(r) ==
    [op |-> "findRecord", record |-> r, relationship |-> "", records |-> << >>, byIds |-> FALSE]
FindRecords(rs) ==
    [op |-> "findRecords", record |-> NoRecord, relationship |-> "", records |-> rs, byIds |-> TRUE]
FindRecordsFiltered ==
    [op |-> "findRecords", record |-> NoRecord, relationship |-> "", records |-> << >>, byIds |-> FALSE]
FindRelatedRecord(r, rel) ==
    [op |-> "findRelatedRecord", record |-> r, relationship |-> rel, records |-> << >>, byIds |-> FALSE]
FindRelatedRecords(r, rel) ==
    [op |-> "findRelatedRecords", record |-> r, relationship |-> rel, records |-> << >>, byIds |-> FALSE]

Expressions ==
    { FindRecord(P1), FindRecords(<<P1, P2>>), FindRecordsFiltered,
      FindRelatedRecord(P1, Moons), FindRelatedRecords(P1, Moons) }

\* Queries: one expression, or two of them.
Queries ==
    { <<e>> : e \in Expressions }
    \cup { <<FindRecord(P1), FindRelatedRecord(P1, Moons)>>,
           <<FindRelatedRecords(P1, Moons), FindRecords(<<P1, P2>>)>> }

\* Clock readings in one behaviour: Date.now() runs from 1 to MaxTime.
MaxTime == 3

\* The options objects the constructor is given; expireIn 0 stands for an absent
\* (or falsy) option: the records never expire.
CachePolicyOptionsSet == { [enabled |-> e, expireIn |-> x] : e \in BOOLEAN, x \in {0, 1} }

\* The Map _loadedExpressions is a function from the keys it holds to their values.
EmptyMap == [k \in {} |-> 0]
MapSet(m, k, v) == [x \in DOMAIN m \cup {k} |-> IF x = k THEN v ELSE m[x]]
MapDelete(m, k) == [x \in DOMAIN m \ {k} |-> m[x]]
MapHas(m, k) == k \in DOMAIN m

\* constructor(options); _cache tells whether setCache() has handed over a cache.
NewCachePolicy(options) ==
    [ enabled            |-> options.enabled,
      expireIn           |-> options.expireIn,
      _cache             |-> FALSE,
      _loadedExpressions |-> EmptyMap ]

\* Strings are sequences of tokens, concatenated by \o.
serializeRecordIdentity(record) == <<record.type, ":", record.id>>

RECURSIVE StringifyRecords(_)
StringifyRecords(rs) ==
    IF rs = << >> THEN << >>
    ELSE <<"{type:", Head(rs).type, "id:", Head(rs).id, "}">> \o StringifyRecords(Tail(rs))

\* JSON.stringify(expression): the fields the expression has, in order.
JSONStringify(expression) ==
    IF expression.op = "findRecords"
    THEN <<"{op:", expression.op>>
         \o (IF expression.byIds
             THEN <<"records:[">> \o StringifyRecords(expression.records) \o <<"]">>
             ELSE <<"filter:[]">>)
         \o <<"}">>
    ELSE <<"{op:", expression.op, "record:">> \o StringifyRecords(<<expression.record>>)
         \o <<"relationship:", expression.relationship, "}">>

\* queryExpressionToCacheKey(expression)
queryExpressionToCacheKey(expression) ==
    CASE expression.op = "findRecord" -> serializeRecordIdentity(expression.record)
      [] expression.op = "findRelatedRecord" ->
            serializeRecordIdentity(expression.record) \o <<":", expression.relationship>>
      [] OTHER -> JSONStringify(expression)

\* The record cache's synchronous lookups.  c.records are the records present;
\* c.relatedRecord and c.relatedRecords are what the lookups of (P1, moons) return.
getRecordsSync(c, rs) == SelectSeq(rs, LAMBDA r : r \in c.records)

\* The contents the record cache goes through.
CacheStates ==
    { [records |-> {},       relatedRecord |-> "undefined", relatedRecords |-> "undefined"],
      [records |-> {P1},     relatedRecord |-> "null",      relatedRecords |-> "undefined"],
      [records |-> {P1, P2}, relatedRecord |-> "record",    relatedRecords |-> "array"] }

\* hasQueryExpressionInCache(expression)
hasQueryExpressionInCache(cp, c, expression) ==
    IF ~cp._cache THEN FALSE
    ELSE CASE expression.op = "findRecord" -> expression.record \in c.records
           [] expression.op = "findRecords" ->
                IF expression.byIds
                THEN Len(getRecordsSync(c, expression.records)) = Len(expression.records)
                ELSE FALSE
           [] expression.op = "findRelatedRecord" -> c.relatedRecord # "undefined"
           [] expression.op = "findRelatedRecords" -> c.relatedRecords # "undefined"
           [] OTHER -> FALSE

\* A queryExpressionIsLoaded that expires a record at the age expireIn already.
queryExpressionIsLoadedInclusive(cp, c, t, expression) ==
    LET cacheKey == queryExpressionToCacheKey(expression)
        m        == cp._loadedExpressions
    IN  IF MapHas(m, cacheKey) /\ m[cacheKey] # 0
        THEN IF cp.expireIn # 0 /\ t - m[cacheKey] >= cp.expireIn
             THEN [ result |-> FALSE,
                    cp |-> [cp EXCEPT !._loadedExpressions = MapDelete(m, cacheKey)] ]
             ELSE [ result |-> TRUE, cp |-> cp ]
        ELSE [ result |-> hasQueryExpressionInCache(cp, c, expression), cp |-> cp ]

\* A queryExpressionIsLoaded that compares the age with expireIn even when it is unset.
queryExpressionIsLoadedAlwaysExpiring(cp, c, t, expression) ==
    LET cacheKey == queryExpressionToCacheKey(expression)
        m        == cp._loadedExpressions
    IN  IF MapHas(m, cacheKey) /\ m[cacheKey] # 0
        THEN IF t - m[cacheKey] > cp.expireIn
             THEN [ result |-> FALSE,
                    cp |-> [cp EXCEPT !._loadedExpressions = MapDelete(m, cacheKey)] ]
             ELSE [ result |-> TRUE, cp |-> cp ]
        ELSE [ result |-> hasQueryExpressionInCache(cp, c, expression), cp |-> cp ]

\* A queryExpressionIsLoaded that asks the cache about an expired record at once.
queryExpressionIsLoadedFallingBack(cp, c, t, expression) ==
    LET cacheKey == queryExpressionToCacheKey(expression)
        m        == cp._loadedExpressions
    IN  IF MapHas(m, cacheKey) /\ m[cacheKey] # 0
        THEN IF cp.expireIn # 0 /\ t - m[cacheKey] > cp.expireIn
             THEN [ result |-> hasQueryExpressionInCache(cp, c, expression),
                    cp |-> [cp EXCEPT !._loadedExpressions = MapDelete(m, cacheKey)] ]
             ELSE [ result |-> TRUE, cp |-> cp ]
        ELSE [ result |-> hasQueryExpressionInCache(cp, c, expression), cp |-> cp ]

\* queryExpressionIsLoaded(expression) at the time t: the value returned and the
\* policy after the call (an expired record is deleted).
queryExpressionIsLoaded(cp, c, t, expression) ==
    LET cacheKey == queryExpressionToCacheKey(expression)
        m        == cp._loadedExpressions
    IN  IF MapHas(m, cacheKey) /\ m[cacheKey] # 0
        THEN IF cp.expireIn # 0 /\ t - m[cacheKey] > cp.expireIn
             THEN [ result |-> FALSE,
                    cp |-> [cp EXCEPT !._loadedExpressions = MapDelete(m, cacheKey)] ]
             ELSE [ result |-> TRUE, cp |-> cp ]
        ELSE [ result |-> hasQueryExpressionInCache(cp, c, expression), cp |-> cp ]

\* The loop of load(), from expression i on.
RECURSIVE loadLoop(_, _, _, _)
loadLoop(cp, t, query, i) ==
    IF i > Len(query) THEN cp
    ELSE loadLoop([cp EXCEPT !._loadedExpressions =
                       MapSet(@, queryExpressionToCacheKey(query[i]), t)],
                  t, query, i + 1)

\* A load() that records the first expression only.
loadFirstOnly(cp, t, query) ==
    IF cp.enabled THEN loadLoop(cp, t, SubSeq(query, 1, 1), 1) ELSE cp

\* load(query) at the time t
load(cp, t, query) ==
    IF cp.enabled THEN loadLoop(cp, t, query, 1) ELSE cp

\* The loop of has(), from expression i on.
RECURSIVE hasLoop(_, _, _, _, _)
hasLoop(cp, c, t, query, i) ==
    IF i > Len(query) THEN [ result |-> TRUE, cp |-> cp ]
    ELSE LET r == queryExpressionIsLoaded(cp, c, t, query[i])
         IN  IF ~r.result THEN [ result |-> FALSE, cp |-> r.cp ]
             ELSE hasLoop(r.cp, c, t, query, i + 1)

\* A has() that is content with the first expression.
hasFirstOnly(cp, c, t, query) ==
    IF ~cp.enabled THEN [ result |-> FALSE, cp |-> cp ]
    ELSE hasLoop(cp, c, t, SubSeq(query, 1, 1), 1)

\* A has() that does not look at enabled.
hasIgnoringEnabled(cp, c, t, query) == hasLoop(cp, c, t, query, 1)

\* has(query) at the time t: the value returned and the policy after the call.
has(cp, c, t, query) ==
    IF ~cp.enabled THEN [ result |-> FALSE, cp |-> cp ]
    ELSE hasLoop(cp, c, t, query, 1)

\* A clear() that drops nothing.
clearNothing(cp) == cp

\* clear()
clear(cp) == [cp EXCEPT !._loadedExpressions = EmptyMap]

\* setCache(cache): the policy holds a cache from now on.
setCache(cp) == [cp EXCEPT !._cache = TRUE]

\* The cache keys of a query's expressions.
KeysOf(query) == { queryExpressionToCacheKey(query[i]) : i \in 1..Len(query) }

(***************************************************************************)
(* Operations on the cache policy.                                         *)
(***************************************************************************)
Load(query) ==
    /\ cachePolicy' = load(cachePolicy, now, query)
    /\ everLoaded' = everLoaded \cup KeysOf(query)
    /\ cpLast' = [op |-> "load", query |-> query]
    /\ UNCHANGED <<cache, now, rpVars, stVars>>

Has(query) ==
    /\ cachePolicy' = has(cachePolicy, cache, now, query).cp
    /\ cpLast' = [op |-> "other", query |-> << >>]
    /\ UNCHANGED <<cache, now, everLoaded, rpVars, stVars>>

Clear ==
    /\ cachePolicy' = clear(cachePolicy)
    /\ cpLast' = [op |-> "clear", query |-> << >>]
    /\ UNCHANGED <<cache, now, everLoaded, rpVars, stVars>>

\* setCache(cache) with a cache that holds the contents c.
SetCache(c) ==
    /\ cachePolicy' = setCache(cachePolicy)
    /\ cache' = c
    /\ cpLast' = [op |-> "other", query |-> << >>]
    /\ UNCHANGED <<now, everLoaded, rpVars, stVars>>

\* The memory source changes the records of the cache the policy holds.
CacheChanges(c) ==
    /\ cachePolicy._cache
    /\ c # cache
    /\ cache' = c
    /\ cpLast' = [op |-> "other", query |-> << >>]
    /\ UNCHANGED <<cachePolicy, now, everLoaded, rpVars, stVars>>

\* Time passes.
Tick ==
    /\ now < MaxTime
    /\ now' = now + 1
    /\ cpLast' = [op |-> "other", query |-> << >>]
    /\ UNCHANGED <<cachePolicy, cache, everLoaded, rpVars, stVars>>

CacheInit ==
    /\ cachePolicy \in { NewCachePolicy(o) : o \in CachePolicyOptionsSet }
    /\ cache = [records |-> {}, relatedRecord |-> "undefined", relatedRecords |-> "undefined"]
    /\ now = 1
    /\ everLoaded = {}
    /\ cpLast = [op |-> "init", query |-> << >>]

(***************************************************************************)
(* The remote strategies (src/src/strategies)                              *)
(*                                                                         *)
(* A strategy listens to its source and its target.  The source processes  *)
(* one request at a time: it runs the strategy's beforeQuery or            *)
(* beforeUpdate listener, waits for the promise the listener returns, and  *)
(* then answers the caller from its own cache; when that promise is        *)
(* rejected it emits queryFail or updateFail and rejects the caller.  The  *)
(* target's request queue processes its tasks in order; a task that fails  *)
(* stays at the head and halts the queue until retry() or skip().          *)
(***************************************************************************)
\* The errors a target request fails with: a NetworkError of @orbit/data, or any
\* other error.
Errors == {"NetworkError", "ApplicationError"}

\* The ops of the query expressions, one predicate of each kind per op.
Ops == {"findRecord", "findRecords", "findRelatedRecord", "findRelatedRecords"}

\* A query of the source: its expressions and the options reload, backgroundReload.
NoOptions == [reload |-> FALSE, backgroundReload |-> FALSE, blocking |-> FALSE]
NoQuery == [expressions |-> << >>, options |-> NoOptions]
NoTransform == [operations |-> "", options |-> NoOptions]

\* The task of no request.
NoTask == 0

\* The hints object before a listener has written its data field.
NoData == "undefined"

\* What a step of the strategy did: the calls it made on the two request queues and
\* on the catch hook, the errors its listeners threw, the pulls and pushes it issued.
NoOut == [skipSource |-> 0, skipTarget |-> 0, retryCalls |-> 0, catchCalls |-> 0,
          throws |-> 0, handlerRuns |-> 0, issued |-> 0]

\* The objects a listener works on, taken together, and what it did so far.
World ==
    [ rp |-> retryPolicy, tm |-> timers, cancelled |-> cancelled, delayLog |-> delayLog,
      cp |-> cachePolicy, loaded |-> everLoaded, st |-> strategy, nav |-> navigatorOnLine,
      tq |-> targetQueue, out |-> NoOut ]

\* TaskQueue of @orbit/core as the strategies use it: push() appends a task, skip()
\* drops the task at the head and goes on with the next, retry() processes the task at
\* the head again.  awaited tells that the listener which issued the task returned its
\* promise to the source, settled that the promise pull() or push() returned for the
\* task is settled: a promise settles once, so a task that failed and is processed
\* again settles nothing.
queuePush(tq, type, query, transform) ==
    [ tq EXCEPT !.tasks = Append(@, [id |-> tq.next, type |-> type, query |-> query,
                                      transform |-> transform, awaited |-> FALSE,
                                      settled |-> FALSE]),
                !.next = @ + 1 ]
queueAwaited(tq, awaited) == [ tq EXCEPT !.tasks[Len(tq.tasks)].awaited = awaited ]
queueSkip(tq) ==
    [ tq EXCEPT !.tasks = IF @ = << >> THEN @ ELSE Tail(@), !.halted = FALSE ]
queueRetry(tq) == [ tq EXCEPT !.halted = FALSE ]

\* retryPolicy.retry(() => target.requestQueue.retry(), delay) on the world.
policyRetry(w, delay) ==
    LET r == retry(w.rp, w.tm, "cbRequeue", delay)
        new == Scheduled(w.tm, r.tm)
    IN  [ w EXCEPT !.rp = r.rp, !.tm = r.tm,
                   !.delayLog = IF new = {} THEN @
                                ELSE Append(@, [delay |-> (CHOOSE t \in new : TRUE).delay,
                                                explicit |-> delay # 0]),
                   !.out.retryCalls = @ + 1 ]

\* retryPolicy.reset() on the world.
policyReset(w) ==
    LET r == reset(w.rp, w.tm)
    IN  [ w EXCEPT !.rp = r.rp, !.tm = r.tm,
                   !.cancelled = @ \cup { t.id : t \in w.tm.pending },
                   !.delayLog = << >> ]

\* cachePolicy.load(query) on the world.
policyLoad(w, t, query) ==
    [ w EXCEPT !.cp = load(w.cp, t, query.expressions),
               !.loaded = @ \cup KeysOf(query.expressions) ]

\* RemoteStrategy.shouldReload(query); st.shouldReload holds the ops whose
\* shouldReload* predicate answers true.
shouldReload(st, query) ==
    IF query.options.reload
    THEN TRUE
    ELSE \E i \in 1..Len(query.expressions) : query.expressions[i].op \in st.shouldReload

\* The predicates shouldRetryQuery and shouldRetryUpdate; st.shouldRetryQuery and
\* st.shouldRetryUpdate hold the errors they answer true for.
defaultShouldRetryQuery == {"NetworkError"}
defaultShouldRetryUpdate == {"NetworkError"}
shouldRetryQuery(st, e) == e \in st.shouldRetryQuery
shouldRetryUpdate(st, e) == e \in st.shouldRetryUpdate

\* RemoteStrategy.skipAndThrowError(e)
skipAndThrowError(w) ==
    [ w EXCEPT !.tq = queueSkip(@),
               !.out.skipSource = @ + 1, !.out.skipTarget = @ + 1, !.out.throws = @ + 1 ]

(***************************************************************************)
(* PessimisticStrategy (src/src/strategies/pessimistic-strategy.ts)        *)
(***************************************************************************)
\* The ops whose shouldBackgroundReload* predicate answers true by default: all.
defaultShouldBackgroundReload == Ops

\* shouldBackgroundReload(query); st.shouldBackgroundReload holds the ops whose
\* shouldBackgroundReload* predicate answers true.
shouldBackgroundReload(st, query) ==
    IF query.options.backgroundReload
    THEN TRUE
    ELSE \A i \in 1..Len(query.expressions) :
            query.expressions[i].op \in st.shouldBackgroundReload

\* filterBeforeQuery(query): whether the listener pulls from the target.
pessimisticFilterWithoutBackground(w, c, t, query) ==
    IF shouldReload(w.st, query)
    THEN [ result |-> TRUE, w |-> w ]
    ELSE LET h == has(w.cp, c, t, query.expressions)
         IN  [ result |-> ~h.result, w |-> [ w EXCEPT !.cp = h.cp ] ]
pessimisticFilterBeforeQuery(w, c, t, query) ==
    IF shouldReload(w.st, query) \/ shouldBackgroundReload(w.st, query)
    THEN [ result |-> TRUE, w |-> w ]
    ELSE LET h == has(w.cp, c, t, query.expressions)
         IN  [ result |-> ~h.result, w |-> [ w EXCEPT !.cp = h.cp ] ]

\* blockingBeforeQuery(query): whether the source waits for the pull.
pessimisticAlwaysBlocking(w, c, t, query) == [ result |-> TRUE, w |-> w ]
pessimisticBlockingBeforeQuery(w, c, t, query) ==
    LET h == has(w.cp, c, t, query.expressions)
    IN  [ result |-> ~(h.result /\ shouldBackgroundReload(w.st, query)),
          w |-> [ w EXCEPT !.cp = h.cp ] ]

\* The beforeQuery listener, up to the promise it returns: pulled tells that it called
\* target.pull(query), awaited that it returned the promise of the pull, hinted that
\* the promise it returned writes the result to hints.data.
pessimisticBeforeQueryHinting(w, c, t, query, hintsObject) ==
    LET f == pessimisticFilterBeforeQuery(w, c, t, query)
    IN  IF ~f.result
        THEN [ w |-> f.w, pulled |-> FALSE, awaited |-> FALSE, hinted |-> FALSE ]
        ELSE LET pushed == [ f.w EXCEPT !.tq = queuePush(@, "pull", query, NoTransform),
                                        !.out.issued = @ + 1 ]
                 b == pessimisticBlockingBeforeQuery(pushed, c, t, query)
             IN  [ w |-> [ b.w EXCEPT !.tq = queueAwaited(@, b.result) ],
                   pulled |-> TRUE, awaited |-> b.result,
                   hinted |-> b.result /\ hintsObject ]
pessimisticBeforeQuery(w, c, t, query, hintsObject) ==
    LET f == pessimisticFilterBeforeQuery(w, c, t, query)
    IN  IF ~f.result
        THEN [ w |-> f.w, pulled |-> FALSE, awaited |-> FALSE, hinted |-> FALSE ]
        ELSE LET pushed == [ f.w EXCEPT !.tq = queuePush(@, "pull", query, NoTransform),
                                        !.out.issued = @ + 1 ]
                 b == pessimisticBlockingBeforeQuery(pushed, c, t, query)
             IN  [ w |-> [ b.w EXCEPT !.tq = queueAwaited(@, b.result) ],
                   pulled |-> TRUE, awaited |-> b.result,
                   hinted |-> b.result /\ w.st.passHints /\ hintsObject ]

\* The beforeUpdate listener: it pushes to the target and returns the promise.
pessimisticBeforeUpdate(w, transform, hintsObject) ==
    [ w |-> [ w EXCEPT !.tq = queueAwaited(queuePush(@, "push", NoQuery, transform), TRUE),
                       !.out.issued = @ + 1 ],
      pulled |-> TRUE, awaited |-> TRUE, hinted |-> w.st.passHints /\ hintsObject ]

\* The callbacks the listeners hang on the promise of the pull or the push with
\* then(): they run when the promise is fulfilled.
pessimisticThenResetOnly(w, t, task) == policyReset(w)
pessimisticThen(w, t, task) ==
    IF task.type = "pull"
    THEN policyLoad(policyReset(w), t, task.query)
    ELSE policyReset(w)

\* The queryFail and the updateFail listener of the source.
pessimisticFail(w, type, e) ==
    LET ran == [ w EXCEPT !.out.handlerRuns = @ + 1 ]
        should == IF type = "pull" THEN shouldRetryQuery(w.st, e)
                  ELSE shouldRetryUpdate(w.st, e)
    IN  IF canRetry(w.rp) /\ should
        THEN policyRetry(ran, 0)
        ELSE skipAndThrowError(ran)

(***************************************************************************)
(* OptimisticStrategy (src/src/strategies/optimistic-strategy.ts)          *)
(***************************************************************************)
\* onLine(): the strategy reads navigator.onLine and resets the retry policy.
onLineKeep(w) == policyReset(w)
onLine(w) == policyReset([ w EXCEPT !.st._onLine = w.nav ])

\* offLine()
offLine(w) == [ w EXCEPT !.st._onLine = FALSE ]

\* this.retry(): the method is called by the handlers of the strategy and defined in
\* none of the files; it is the retry the specification describes for a failure,
\* retryPolicy.retry(requeue-this-request), with the delay the policy computes.
strategyRetry(w) == policyRetry(w, 0)

\* filterBeforeQuery(query)
optimisticFilterOnLineFirst(w, c, t, query) ==
    LET h == has(w.cp, c, t, query.expressions)
    IN  [ result |-> w.st._onLine /\ (shouldReload(w.st, query) \/ ~h.result),
          w |-> [ w EXCEPT !.cp = h.cp ] ]
optimisticFilterIgnoringOnLine(w, c, t, query) ==
    [ result |-> shouldReload(w.st, query) \/ ~has(w.cp, c, t, query.expressions).result,
      w |-> w ]
optimisticFilterBeforeQuery(w, c, t, query) ==
    IF shouldReload(w.st, query)
    THEN [ result |-> TRUE, w |-> w ]
    ELSE LET h == has(w.cp, c, t, query.expressions)
             w1 == [ w EXCEPT !.cp = h.cp ]
         IN  IF h.result
             THEN [ result |-> FALSE, w |-> w1 ]
             ELSE [ result |-> w.st._onLine, w |-> w1 ]

\* blockingBeforeQuery(query)
optimisticBlockingBeforeQuery(w, c, t, query) ==
    IF shouldReload(w.st, query)
    THEN [ result |-> TRUE, w |-> w ]
    ELSE LET h == has(w.cp, c, t, query.expressions)
         IN  [ result |-> ~h.result, w |-> [ w EXCEPT !.cp = h.cp ] ]

\* The beforeQuery listener, up to the promise it returns.
optimisticBeforeQuery(w, c, t, query) ==
    LET f == optimisticFilterBeforeQuery(w, c, t, query)
    IN  IF ~f.result
        THEN [ w |-> f.w, pulled |-> FALSE, awaited |-> FALSE, hinted |-> FALSE ]
        ELSE LET pushed == [ f.w EXCEPT !.tq = queuePush(@, "pull", query, NoTransform),
                                        !.out.issued = @ + 1 ]
                 b == optimisticBlockingBeforeQuery(pushed, c, t, query)
             IN  [ w |-> [ b.w EXCEPT !.tq = queueAwaited(@, b.result) ],
                   pulled |-> TRUE, awaited |-> b.result, hinted |-> FALSE ]

\* The beforeUpdate listener, up to the promise it returns.
optimisticBeforeUpdateBlocking(w, transform) ==
    [ w |-> [ w EXCEPT !.tq = queueAwaited(queuePush(@, "push", NoQuery, transform), TRUE),
                       !.out.issued = @ + 1 ],
      pulled |-> TRUE, awaited |-> TRUE, hinted |-> FALSE ]
optimisticBeforeUpdate(w, transform) ==
    [ w |-> [ w EXCEPT !.tq = queueAwaited(queuePush(@, "push", NoQuery, transform),
                                           transform.options.blocking),
                       !.out.issued = @ + 1 ],
      pulled |-> TRUE, awaited |-> transform.options.blocking, hinted |-> FALSE ]

\* The pull and the push listener of the target.
optimisticSucceeded(w, t, task) ==
    IF task.type = "pull"
    THEN policyLoad(onLine(w), t, task.query)
    ELSE onLine(w)

\* queryFailHandler(query, e)
queryFailHandler(w, e) ==
    LET ran == [ w EXCEPT !.out.handlerRuns = @ + 1 ]
        w1 == IF e = "NetworkError" THEN offLine(ran) ELSE ran
    IN  IF canRetry(w1.rp) /\ shouldRetryQuery(w1.st, e)
        THEN strategyRetry(w1)
        ELSE [ w1 EXCEPT !.tq = queueSkip(@), !.out.skipTarget = @ + 1 ]

\* updateFailHandler(transform, e); the catch hook is the application's and is
\* counted, no more.
updateFailHandlerDropping(w, transform, e) ==
    LET ran == [ w EXCEPT !.out.handlerRuns = @ + 1 ]
        w1 == IF e = "NetworkError" THEN offLine(ran) ELSE ran
    IN  IF canRetry(w1.rp) /\ shouldRetryUpdate(w1.st, e)
        THEN strategyRetry(w1)
        ELSE IF transform.options.blocking
        THEN skipAndThrowError(w1)
        ELSE IF w1.st.catch
        THEN [ w1 EXCEPT !.out.catchCalls = @ + 1 ]
        ELSE w1
updateFailHandler(w, transform, e) ==
    LET ran == [ w EXCEPT !.out.handlerRuns = @ + 1 ]
        w1 == IF e = "NetworkError" THEN offLine(ran) ELSE ran
    IN  IF canRetry(w1.rp) /\ shouldRetryUpdate(w1.st, e)
        THEN strategyRetry(w1)
        ELSE IF transform.options.blocking
        THEN skipAndThrowError(w1)
        ELSE IF w1.st.catch
        THEN [ w1 EXCEPT !.out.catchCalls = @ + 1 ]
        ELSE skipAndThrowError(w1)

\* onLineCallback, the listener of the window's online event.
onLineCallbackUnguarded(w) == strategyRetry(onLine(w))
onLineCallbackNoRetry(w) == onLine(w)
onLineCallback(w) ==
    LET w1 == onLine(w)
    IN  IF w1.st._onLine /\ canRetry(w1.rp) THEN strategyRetry(w1) ELSE w1

(***************************************************************************)
(* The strategy between its source and its target.                         *)
(***************************************************************************)
\* The timeouts a strategy has set in the world w are at most MaxRetryTimerId.
WithinTimers(w) == w.tm.next <= MaxRetryTimerId + 1

\* The variables after a listener has left the world w.
Commit(w) ==
    /\ retryPolicy' = w.rp
    /\ timers' = w.tm
    /\ cancelled' = w.cancelled
    /\ delayLog' = w.delayLog
    /\ cachePolicy' = w.cp
    /\ everLoaded' = w.loaded
    /\ strategy' = w.st
    /\ targetQueue' = w.tq
    /\ rpLast' = "strategy"
    /\ cpLast' = [op |-> "other", query |-> << >>]

\* The task the target is processing.
InFlight == targetQueue.tasks # << >> /\ ~targetQueue.halted
\* The source waits for the promise of task.
Awaits(task) == request.state = "blocked" /\ request.task = task.id

\* The record of a step in stLast.
Did(op, type, task, error, r, w) ==
    [ op |-> op, type |-> type, task |-> task, error |-> error,
      pulled |-> r.pulled, awaited |-> r.awaited, out |-> w.out ]
NoListener == [pulled |-> FALSE, awaited |-> FALSE, hinted |-> FALSE]
\* The target settles task: awaited tells that the source waits for its promise.
Settles(task) == [pulled |-> FALSE, awaited |-> Awaits(task), hinted |-> FALSE]

\* The request of the source after its before-listener returned r.
Requested(kind, query, transform, r, w) ==
    [ kind |-> kind, query |-> query, transform |-> transform,
      state |-> IF r.awaited THEN "blocked" ELSE "resolved",
      task |-> IF r.awaited THEN w.tq.next - 1 ELSE NoTask,
      hinted |-> r.hinted ]

\* activate(): the cache policy is given the cache of the source and the listeners are
\* registered.  The coordinator activates a strategy once: a strategy that was
\* deactivated is not activated again.
Activate ==
    /\ ~strategy.active
    /\ stLast.op = "init"
    /\ Commit([ World EXCEPT !.cp = setCache(@), !.st.active = TRUE ])
    /\ stLast' = Did("activate", "", NoTask, "", NoListener, World)
    /\ UNCHANGED <<fired, cache, now, navigatorOnLine, request, hints>>

\* source.query(query) with a pessimistic strategy: the beforeQuery listener runs, and
\* the source answers from its cache unless the listener returned the promise of the
\* pull.
PessimisticQuery(query, hintsObject) ==
    /\ strategy.active /\ strategy.kind = "pessimistic"
    /\ request.state # "blocked"
    /\ targetQueue.next <= MaxRequests
    /\ LET r == pessimisticBeforeQuery(World, cache, now, query, hintsObject)
       IN  /\ Commit(r.w)
           /\ request' = Requested("query", query, NoTransform, r, r.w)
           /\ stLast' = Did("query", "pull", IF r.pulled THEN r.w.tq.next - 1 ELSE NoTask,
                            "", r, r.w)
    /\ hints' = NoData
    /\ UNCHANGED <<fired, cache, now, navigatorOnLine>>

\* source.update(transform) with a pessimistic strategy.
PessimisticUpdate(transform, hintsObject) ==
    /\ strategy.active /\ strategy.kind = "pessimistic"
    /\ request.state # "blocked"
    /\ targetQueue.next <= MaxRequests
    /\ LET r == pessimisticBeforeUpdate(World, transform, hintsObject)
       IN  /\ Commit(r.w)
           /\ request' = Requested("update", NoQuery, transform, r, r.w)
           /\ stLast' = Did("update", "push", r.w.tq.next - 1, "", r, r.w)
    /\ hints' = NoData
    /\ UNCHANGED <<fired, cache, now, navigatorOnLine>>

\* The target fulfils the task at the head of its queue: the then() callbacks of its
\* promise run, and a source that waited for the promise goes on and answers.
PessimisticSucceeds ==
    /\ strategy.active /\ strategy.kind = "pessimistic"
    /\ InFlight
    /\ LET task == Head(targetQueue.tasks)
           done == [ World EXCEPT !.tq.tasks = Tail(@) ]
           w    == IF task.settled THEN done ELSE pessimisticThen(done, now, task)
       IN  /\ Commit(w)
           /\ request' = IF Awaits(task) THEN [ request EXCEPT !.state = "resolved" ]
                         ELSE request
           /\ hints' = IF Awaits(task) /\ request.hinted THEN "R" ELSE hints
           /\ stLast' = Did("success", task.type, task.id, "",
                            Settles(task), w)
    /\ UNCHANGED <<fired, cache, now, navigatorOnLine>>

\* The target fails the task at the head of its queue with the error e: the queue
\* halts, the promise is rejected, and a source that waited for it emits queryFail or
\* updateFail and rejects its caller.
PessimisticFails(e) ==
    /\ strategy.active /\ strategy.kind = "pessimistic"
    /\ InFlight
    /\ LET task == Head(targetQueue.tasks)
           halt == [ World EXCEPT !.tq.halted = TRUE, !.tq.tasks[1].settled = TRUE ]
           w    == IF Awaits(task) THEN pessimisticFail(halt, task.type, e) ELSE halt
       IN  /\ WithinTimers(w)
           /\ Commit(w)
           /\ request' = IF Awaits(task) THEN [ request EXCEPT !.state = "rejected" ]
                         ELSE request
           /\ stLast' = Did("failure", task.type, task.id, e,
                            Settles(task), w)
    /\ UNCHANGED <<fired, cache, now, navigatorOnLine, hints>>

\* The timeout of the retry policy fires: the callback retries the target's queue.
RequeueFires(t) ==
    /\ t \in timers.pending
    /\ LET r == timeoutFires(retryPolicy, timers, t)
           w == [ World EXCEPT !.rp = r.rp, !.tm = r.tm, !.tq = queueRetry(@) ]
       IN  /\ Commit(w)
           /\ stLast' = Did("timer", "", NoTask, "", NoListener, w)
    /\ fired' = fired \cup {t.id}
    /\ UNCHANGED <<cache, now, navigatorOnLine, request, hints>>

\* deactivate(): the retry policy is reset, the cache policy cleared and every listener
\* of generateListeners removed.  The then() and catch() callbacks that the listeners
\* hung on the promises of requests the target has not settled yet stay where they are.
Deactivate ==
    /\ strategy.active
    /\ LET w == [ policyReset(World) EXCEPT !.cp = clear(@), !.st.active = FALSE ]
       IN  /\ Commit(w)
           /\ stLast' = Did("deactivate", "", NoTask, "", NoListener, w)
    /\ UNCHANGED <<fired, cache, now, navigatorOnLine, request, hints>>

\* The target fulfils the task at the head of its queue while the strategy is not
\* active: the target's pull and push listeners are gone, the then() callbacks of the
\* pessimistic listeners run, and a source that waited for the promise goes on.
DeactivatedSucceeds ==
    /\ ~strategy.active
    /\ InFlight
    /\ LET task == Head(targetQueue.tasks)
           done == [ World EXCEPT !.tq.tasks = Tail(@) ]
           w    == IF strategy.kind = "pessimistic" /\ ~task.settled
                   THEN pessimisticThen(done, now, task)
                   ELSE done
       IN  /\ Commit(w)
           /\ request' = IF Awaits(task) THEN [ request EXCEPT !.state = "resolved" ]
                         ELSE request
           /\ hints' = IF Awaits(task) /\ request.hinted THEN "R" ELSE hints
           /\ stLast' = Did("success", task.type, task.id, "", Settles(task), w)
    /\ UNCHANGED <<fired, cache, now, navigatorOnLine>>

\* The target fails the task at the head of its queue while the strategy is not active:
\* the failure listeners of the source and of the target are gone; the catch() callback
\* of an optimistic before-listener runs if the source waits for the promise.
DeactivatedFails(e) ==
    /\ ~strategy.active
    /\ InFlight
    /\ LET task == Head(targetQueue.tasks)
           halt == [ World EXCEPT !.tq.halted = TRUE, !.tq.tasks[1].settled = TRUE ]
           w    == IF strategy.kind = "optimistic" /\ Awaits(task)
                   THEN IF task.type = "pull" THEN queryFailHandler(halt, e)
                        ELSE updateFailHandler(halt, task.transform, e)
                   ELSE halt
       IN  /\ WithinTimers(w)
           /\ Commit(w)
           /\ request' = IF Awaits(task)
                         THEN [ request EXCEPT
                                  !.state = IF strategy.kind = "pessimistic" \/ w.out.throws > 0
                                            THEN "rejected" ELSE "resolved" ]
                         ELSE request
           /\ stLast' = Did("failure", task.type, task.id, e, Settles(task), w)
    /\ UNCHANGED <<fired, cache, now, navigatorOnLine, hints>>

\* source.query(query) with an optimistic strategy.
OptimisticQuery(query) ==
    /\ strategy.active /\ strategy.kind = "optimistic"
    /\ request.state # "blocked"
    /\ targetQueue.next <= MaxOptimisticRequests
    /\ LET r == optimisticBeforeQuery(World, cache, now, query)
       IN  /\ Commit(r.w)
           /\ request' = Requested("query", query, NoTransform, r, r.w)
           /\ stLast' = Did("query", "pull", IF r.pulled THEN r.w.tq.next - 1 ELSE NoTask,
                            "", r, r.w)
    /\ hints' = NoData
    /\ UNCHANGED <<fired, cache, now, navigatorOnLine>>

\* source.update(transform) with an optimistic strategy.
OptimisticUpdate(transform) ==
    /\ strategy.active /\ strategy.kind = "optimistic"
    /\ request.state # "blocked"
    /\ targetQueue.next <= MaxOptimisticRequests
    /\ LET r == optimisticBeforeUpdate(World, transform)
       IN  /\ Commit(r.w)
           /\ request' = Requested("update", NoQuery, transform, r, r.w)
           /\ stLast' = Did("update", "push", r.w.tq.next - 1, "", r, r.w)
    /\ hints' = NoData
    /\ UNCHANGED <<fired, cache, now, navigatorOnLine>>

\* The target fulfils the task at the head of its queue and emits pull or push; a
\* source that waited for the promise goes on and answers.
OptimisticSucceeds ==
    /\ strategy.active /\ strategy.kind = "optimistic"
    /\ InFlight
    /\ LET task == Head(targetQueue.tasks)
           w    == optimisticSucceeded([ World EXCEPT !.tq.tasks = Tail(@) ], now, task)
       IN  /\ Commit(w)
           /\ request' = IF Awaits(task) THEN [ request EXCEPT !.state = "resolved" ]
                         ELSE request
           /\ stLast' = Did("success", task.type, task.id, "",
                            Settles(task), w)
    /\ UNCHANGED <<fired, cache, now, navigatorOnLine, hints>>

\* The listeners that run when the target fails task with e: the pullFail or pushFail
\* listener of the target first; then, if the source waits for the promise, the
\* catch() callback of the before-listener; and, if that callback threw, the updateFail
\* listener of the source.  threw tells whether the catch() callback threw.
optimisticFailed(w, task, e, awaits) ==
    LET handler(v) == IF task.type = "pull" THEN queryFailHandler(v, e)
                      ELSE updateFailHandler(v, task.transform, e)
        first  == handler(w)
        second == handler(first)
        threw  == second.out.throws > first.out.throws
    IN  IF ~awaits THEN [ w |-> first, threw |-> FALSE ]
        ELSE IF ~threw THEN [ w |-> second, threw |-> FALSE ]
        ELSE [ w |-> handler(second), threw |-> TRUE ]

\* The target fails the task at the head of its queue with the error e.
OptimisticFails(e) ==
    /\ strategy.active /\ strategy.kind = "optimistic"
    /\ InFlight
    /\ LET task == Head(targetQueue.tasks)
           halt == [ World EXCEPT !.tq.halted = TRUE, !.tq.tasks[1].settled = TRUE ]
           r    == optimisticFailed(halt, task, e, Awaits(task))
       IN  /\ WithinTimers(r.w)
           /\ Commit(r.w)
           /\ request' = IF Awaits(task)
                         THEN [ request EXCEPT
                                  !.state = IF r.threw THEN "rejected" ELSE "resolved" ]
                         ELSE request
           /\ stLast' = Did("failure", task.type, task.id, e,
                            Settles(task), r.w)
    /\ UNCHANGED <<fired, cache, now, navigatorOnLine, hints>>

\* The window's online event: navigator.onLine is true and onLineCallback runs.
OnlineEvent ==
    /\ strategy.active /\ strategy.kind = "optimistic"
    /\ ~navigatorOnLine
    /\ navigatorOnLine' = TRUE
    /\ LET w == onLineCallback([ World EXCEPT !.nav = TRUE ])
       IN  /\ WithinTimers(w)
           /\ Commit(w)
           /\ stLast' = Did("online", "", NoTask, "", NoListener, w)
    /\ UNCHANGED <<fired, cache, now, request, hints>>

\* The window's offline event: navigator.onLine is false and offLineCallback runs.
OfflineEvent ==
    /\ strategy.active /\ strategy.kind = "optimistic"
    /\ navigatorOnLine
    /\ navigatorOnLine' = FALSE
    /\ LET w == offLine([ World EXCEPT !.nav = FALSE ])
       IN  /\ Commit(w)
           /\ stLast' = Did("offline", "", NoTask, "", NoListener, w)
    /\ UNCHANGED <<fired, cache, now, request, hints>>

\* The records of the source's cache change: the source applied an update of its own
\* or synced a transform of the target.
SourceChanges(c) ==
    /\ strategy.active
    /\ c # cache
    /\ cache' = c
    /\ UNCHANGED <<cachePolicy, now, everLoaded, cpLast, rpVars, strategy, navigatorOnLine,
                   targetQueue, request, hints, stLast>>

\* Clock readings in one behaviour of a strategy: Date.now() runs from 1 to
\* MaxStrategyTime.
MaxStrategyTime == 3

\* Time passes: more than expireIn, so that the freshness records written before are
\* expired afterwards (the age expireIn itself is the matter of the cache policy alone).
Elapses ==
    /\ strategy.active
    /\ now + cachePolicy.expireIn + 1 <= MaxStrategyTime
    /\ now' = now + cachePolicy.expireIn + 1
    /\ UNCHANGED <<cachePolicy, cache, everLoaded, cpLast, rpVars, strategy, navigatorOnLine,
                   targetQueue, request, hints, stLast>>

(***************************************************************************)
(* The requests and the configurations of the strategies.                  *)
(***************************************************************************)
\* The queries the callers issue: a query of one expression without options, with the
\* option reload and with the option backgroundReload, and a query of two expressions.
StrategyQueries ==
    { [ expressions |-> << FindRecord(P1) >>, options |-> o ] :
        o \in { NoOptions, [NoOptions EXCEPT !.reload = TRUE],
                [NoOptions EXCEPT !.backgroundReload = TRUE] } }
    \cup { [ expressions |-> << FindRecord(P1), FindRelatedRecords(P1, Moons) >>,
             options |-> NoOptions ] }

\* The contents of the source's cache: no record, or the records of the queries.
SourceCacheStates == { c \in CacheStates : Cardinality(c.records) # 1 }

\* The transforms the callers issue, blocking or not.
StrategyTransforms ==
    { [ operations |-> "addRecord", options |-> [NoOptions EXCEPT !.blocking = b] ] :
        b \in BOOLEAN }

\* The retry policy and the cache policy of a strategy.
StrategyRetryOptions ==
    { [enabled |-> TRUE, retries |-> 2, delay |-> 100, maxDelay |-> 2000, factor |-> 0],
      [enabled |-> FALSE, retries |-> 2, delay |-> 100, maxDelay |-> 2000, factor |-> 0] }
StrategyCacheOptions == { [enabled |-> TRUE, expireIn |-> 1] }

\* new PessimisticStrategy(options)
NewPessimisticStrategy(options) ==
    [ kind |-> "pessimistic", active |-> FALSE, passHints |-> options.passHints,
      catch |-> FALSE, shouldReload |-> options.shouldReload,
      shouldBackgroundReload |-> options.shouldBackgroundReload,
      shouldRetryQuery |-> defaultShouldRetryQuery,
      shouldRetryUpdate |-> defaultShouldRetryUpdate, _onLine |-> TRUE ]

\* new OptimisticStrategy(options), constructed while navigator.onLine is nav.
NewOptimisticStrategy(options, nav) ==
    [ kind |-> "optimistic", active |-> FALSE, passHints |-> FALSE,
      catch |-> options.catch, shouldReload |-> options.shouldReload,
      shouldBackgroundReload |-> {},
      shouldRetryQuery |-> defaultShouldRetryQuery,
      shouldRetryUpdate |-> defaultShouldRetryUpdate, _onLine |-> nav ]

\* The options of the strategies: the defaults, and predicates of the application.
PessimisticOptionsSet ==
    { [ passHints |-> TRUE, shouldReload |-> {},
        shouldBackgroundReload |-> defaultShouldBackgroundReload ],
      [ passHints |-> FALSE, shouldReload |-> {}, shouldBackgroundReload |-> {} ],
      [ passHints |-> TRUE, shouldReload |-> {"findRelatedRecords"},
        shouldBackgroundReload |-> {"findRecord"} ] }

OptimisticOptionsSet ==
    { [ catch |-> FALSE, shouldReload |-> {} ],
      [ catch |-> TRUE, shouldReload |-> {"findRelatedRecords"} ] }

NoRequest ==
    [ kind |-> "none", query |-> NoQuery, transform |-> NoTransform, state |-> "none",
      task |-> NoTask, hinted |-> FALSE ]

\* The policies, the queue and the source of a strategy that has just been constructed.
StrategyInit ==
    /\ retryPolicy \in { NewRetryPolicy(o) : o \in StrategyRetryOptions }
    /\ timers = [next |-> 1, pending |-> {}]
    /\ fired = {}
    /\ cancelled = {}
    /\ delayLog = << >>
    /\ rpLast = "init"
    /\ cachePolicy \in { NewCachePolicy(o) : o \in StrategyCacheOptions }
    /\ cache = [records |-> {}, relatedRecord |-> "undefined", relatedRecords |-> "undefined"]
    /\ now = 1
    /\ everLoaded = {}
    /\ cpLast = [op |-> "init", query |-> << >>]
    /\ targetQueue = [tasks |-> << >>, halted |-> FALSE, next |-> 1]
    /\ request = NoRequest
    /\ hints = NoData
    /\ stLast = Did("init", "", NoTask, "", NoListener, [out |-> NoOut])

\* No strategy: the policies on their own.
StrategyIdle ==
    /\ strategy = NewPessimisticStrategy([ passHints |-> TRUE, shouldReload |-> {},
                     shouldBackgroundReload |-> defaultShouldBackgroundReload ])
    /\ navigatorOnLine = TRUE
    /\ targetQueue = [tasks |-> << >>, halted |-> FALSE, next |-> 1]
    /\ request = NoRequest
    /\ hints = NoData
    /\ stLast = Did("init", "", NoTask, "", NoListener, [out |-> NoOut])

(***************************************************************************)
(* The pessimistic strategy.                                               *)
(***************************************************************************)
InitPessimistic ==
    /\ StrategyInit
    /\ strategy \in { NewPessimisticStrategy(o) : o \in PessimisticOptionsSet }
    /\ navigatorOnLine = TRUE

NextPessimistic ==
    \/ Activate
    \/ Deactivate
    \/ DeactivatedSucceeds
    \/ \E e \in Errors : DeactivatedFails(e)
    \/ \E query \in StrategyQueries, hintsObject \in BOOLEAN :
            PessimisticQuery(query, hintsObject)
    \/ \E transform \in StrategyTransforms, hintsObject \in BOOLEAN :
            PessimisticUpdate(transform, hintsObject)
    \/ PessimisticSucceeds
    \/ \E e \in Errors : PessimisticFails(e)
    \/ \E t \in timers.pending : RequeueFires(t)
    \/ \E c \in SourceCacheStates : SourceChanges(c)
    \/ Elapses

SpecPessimistic == InitPessimistic /\ [][NextPessimistic]_vars

(***************************************************************************)
(* The optimistic strategy.                                                *)
(***************************************************************************)
InitOptimistic ==
    /\ StrategyInit
    /\ navigatorOnLine \in BOOLEAN
    /\ strategy \in { NewOptimisticStrategy(o, navigatorOnLine) : o \in OptimisticOptionsSet }

NextOptimistic ==
    \/ Activate
    \/ Deactivate
    \/ DeactivatedSucceeds
    \/ \E e \in Errors : DeactivatedFails(e)
    \/ \E query \in { q \in StrategyQueries : ~q.options.backgroundReload } :
            OptimisticQuery(query)
    \/ \E transform \in StrategyTransforms : OptimisticUpdate(transform)
    \/ OptimisticSucceeds
    \/ \E e \in Errors : OptimisticFails(e)
    \/ \E t \in timers.pending : RequeueFires(t)
    \/ OnlineEvent
    \/ OfflineEvent
    \/ \E c \in SourceCacheStates : SourceChanges(c)
    \/ Elapses

SpecOptimistic == InitOptimistic /\ [][NextOptimistic]_vars

(***************************************************************************)
(* The optimistic strategy with a backup source (src/unnamed/part_002).    *)
(***************************************************************************)
\* new OptimisticStrategy({source, target, backup}); stored is what the backup source
\* holds, restore the progress of restoreBackup().
NewBackupStrategy(options, nav, stored) ==
    [ kind |-> "optimistic", active |-> FALSE, passHints |-> FALSE,
      catch |-> options.catch, shouldReload |-> options.shouldReload,
      shouldBackgroundReload |-> {},
      shouldRetryQuery |-> defaultShouldRetryQuery,
      shouldRetryUpdate |-> defaultShouldRetryUpdate, _onLine |-> nav,
      backup |-> stored, restore |-> "none", restores |-> 0 ]

\* activate(), up to its await of restoreBackup(): the cache policy is given the cache
\* of the source, the listeners are registered, and the pull from the backup begins.
ActivateBackup ==
    /\ ~strategy.active
    /\ LET w == [ World EXCEPT !.cp = setCache(@), !.st.active = TRUE,
                               !.st.restore = "pulling", !.st.restores = @ + 1 ]
       IN  /\ Commit(w)
           /\ stLast' = Did("activate", "", NoTask, "", NoListener, w)
    /\ UNCHANGED <<fired, cache, now, navigatorOnLine, request, hints>>

\* restoreBackup(): the backup answers the pull of all its records.
RestorePulled ==
    /\ strategy.restore = "pulling"
    /\ strategy' = [ strategy EXCEPT !.restore = "syncing" ]
    /\ UNCHANGED <<rpVars, cpVars, navigatorOnLine, targetQueue, request, hints, stLast>>

\* restoreBackup(): the source has synced what the backup answered, and activate()
\* returns.
RestoreSynced ==
    /\ strategy.restore = "syncing"
    /\ strategy' = [ strategy EXCEPT !.restore = "done" ]
    /\ cache' = strategy.backup
    /\ UNCHANGED <<cachePolicy, now, everLoaded, cpLast, rpVars, navigatorOnLine,
                   targetQueue, request, hints, stLast>>

InitBackup ==
    /\ StrategyInit
    /\ navigatorOnLine \in BOOLEAN
    /\ strategy \in { NewBackupStrategy(o, navigatorOnLine, c) :
                        o \in OptimisticOptionsSet, c \in SourceCacheStates }

NextBackup ==
    \/ ActivateBackup
    \/ RestorePulled
    \/ RestoreSynced
    \/ \E query \in { q \in StrategyQueries : ~q.options.backgroundReload } :
            OptimisticQuery(query)
    \/ \E transform \in StrategyTransforms : OptimisticUpdate(transform)
    \/ OptimisticSucceeds
    \/ \E e \in Errors : OptimisticFails(e)
    \/ \E t \in timers.pending : RequeueFires(t)
    \/ Elapses

SpecBackup == InitBackup /\ [][NextBackup]_vars

(***************************************************************************)
(* The retry policy on its own.                                            *)
(***************************************************************************)
RetryInit ==
    /\ retryPolicy \in { NewRetryPolicy(o) : o \in RetryPolicyOptionsSet }
    /\ timers = [next |-> 1, pending |-> {}]
    /\ fired = {}
    /\ cancelled = {}
    /\ delayLog = << >>
    /\ rpLast = "init"

\* The cache policy a strategy holds next to its retry policy, left alone.
CacheIdle ==
    /\ cachePolicy = NewCachePolicy([enabled |-> TRUE, expireIn |-> 0])
    /\ cache = [records |-> {}, relatedRecord |-> "undefined", relatedRecords |-> "undefined"]
    /\ now = 1
    /\ everLoaded = {}
    /\ cpLast = [op |-> "init", query |-> << >>]

InitRetry == RetryInit /\ CacheIdle /\ StrategyIdle

NextRetry ==
    \/ \E callback \in Callbacks, delay \in ExplicitDelays : Retry(callback, delay)
    \/ Reset
    \/ \E t \in timers.pending : TimerFires(t)

SpecRetry == InitRetry /\ [][NextRetry]_vars

(***************************************************************************)
(* The cache policy on its own.                                            *)
(***************************************************************************)
\* The retry policy a strategy holds next to its cache policy, left alone.
RetryIdle ==
    /\ retryPolicy = NewRetryPolicy([enabled |-> TRUE, retries |-> 0, delay |-> 0,
                                     maxDelay |-> 0, factor |-> 0])
    /\ timers = [next |-> 1, pending |-> {}]
    /\ fired = {}
    /\ cancelled = {}
    /\ delayLog = << >>
    /\ rpLast = "init"

InitCache == CacheInit /\ RetryIdle /\ StrategyIdle

NextCache ==
    \/ \E query \in Queries : Load(query)
    \/ \E query \in Queries : Has(query)
    \/ Clear
    \/ \E c \in CacheStates : SetCache(c)
    \/ \E c \in CacheStates : CacheChanges(c)
    \/ Tick

SpecCache == InitCache /\ [][NextCache]_vars

(***************************************************************************)
(* Claims about the retry policy (checked under SpecRetry).                *)
(***************************************************************************)
\* The retries scheduled since construction or the last reset(): the attempt counter
\* as an observer counts it, without reading _retries.
Attempts == Len(delayLog)

\* C1: in every reachable state the _retries field is the number of retries scheduled
\* since the last reset, and canRetry is exactly (enabled and attempts < maxAttempts),
\* the comparison being strict: with attempts = maxAttempts canRetry is false.
C1_CanRetryStrict ==
    /\ retryPolicy._retries = Attempts
    /\ canRetry(retryPolicy) = (retryPolicy.enabled /\ Attempts < retryPolicy.retries)

\* An enabled policy stands at exactly maxAttempts attempts, and canRetry is false.
C1_Witness ==
    /\ retryPolicy.enabled
    /\ Attempts = retryPolicy.retries
    /\ ~canRetry(retryPolicy)

C3_ResetCancels ==
    /\ cancelled \cap fired = {}
    /\ rpLast = "reset" =>
         /\ retryPolicy._retries = 0
         /\ retryPolicy._retryTimer = NoTimer
         /\ timers.pending = {}
         /\ canRetry(retryPolicy) = retryPolicy.enabled

\* reset() has just cancelled a pending retry of an enabled policy that had used up
\* its attempts, after an earlier callback had fired.
C3_Witness ==
    /\ rpLast = "reset"
    /\ retryPolicy.enabled
    /\ fired # {}
    /\ \E c \in cancelled : c >= retryPolicy.retries /\ \A f \in fired : f < c

\* 2 to the power k, by repeated doubling.
RECURSIVE Pow2(_)
Pow2(k) == IF k = 0 THEN 1 ELSE 2 * Pow2(k - 1)

\* C4: with baseDelay 100, factor 2 and maxDelay 2000, the k-th retry scheduled since
\* the last reset (k = 0, 1, ...) without an explicit delay waits min(100 * 2^k, 2000):
\* 100, 200, 400, 800, 1600, 2000, 2000, ...; the delays never decrease and never
\* exceed maxDelay.
C4_DelaySequence ==
    ( retryPolicy.delay = 100 /\ retryPolicy.factor = 2 /\ retryPolicy.maxDelay = 2000 ) =>
        /\ \A k \in 1..Len(delayLog) :
             ~delayLog[k].explicit =>
                 /\ delayLog[k].delay = Min(100 * Pow2(k - 1), 2000)
                 /\ delayLog[k].delay <= retryPolicy.maxDelay
        /\ \A j, k \in 1..Len(delayLog) :
             ( j <= k /\ ~delayLog[j].explicit /\ ~delayLog[k].explicit ) =>
                 delayLog[j].delay <= delayLog[k].delay

\* Seven retries in a row without an explicit delay: 100 ... 1600, 2000, 2000.
C4_Witness ==
    /\ retryPolicy.delay = 100 /\ retryPolicy.factor = 2 /\ retryPolicy.maxDelay = 2000
    /\ Len(delayLog) >= 7
    /\ [ k \in 1..7 |-> delayLog[k].delay ] = <<100, 200, 400, 800, 1600, 2000, 2000>>
    /\ \A k \in 1..7 : ~delayLog[k].explicit

\* C5: at most one scheduled retry callback is outstanding at any time, and it is the
\* one the policy holds in _retryTimer.
C5_OnePending ==
    /\ Cardinality(timers.pending) <= 1
    /\ \A t \in timers.pending : t.id = retryPolicy._retryTimer

\* A retry is outstanding after earlier ones have fired and been cancelled.
C5_Witness ==
    /\ Cardinality(timers.pending) = 1
    /\ fired # {}
    /\ cancelled # {}
    /\ rpLast = "retry"

(***************************************************************************)
(* Claims about the cache policy (checked under SpecCache).                *)
(***************************************************************************)
\* What has(query) returns in the current state.
HasNow(query) == has(cachePolicy, cache, now, query).result

\* The existence oracle has a match for the expression.
OracleConfirms(expression) == hasQueryExpressionInCache(cachePolicy, cache, expression)

\* The oracle has no match for any expression.
OracleEmpty == \A e \in Expressions : ~OracleConfirms(e)

\* The freshness record of the expression, if there is one, and its age.
HasRecord(expression) ==
    queryExpressionToCacheKey(expression) \in DOMAIN cachePolicy._loadedExpressions
Age(expression) ==
    now - cachePolicy._loadedExpressions[queryExpressionToCacheKey(expression)]

\* C6: for an enabled tracker, has(Q) is false as long as some expression of Q has
\* never been loaded and has no match in the oracle (so before any load(Q) when the
\* oracle has no match for Q), and has(Q) is true right after load(Q).
C6_LoadMakesFresh ==
    cachePolicy.enabled =>
        \A query \in Queries :
            /\ ( \E i \in 1..Len(query) :
                    /\ queryExpressionToCacheKey(query[i]) \notin everLoaded
                    /\ ~OracleConfirms(query[i]) )
               => ~HasNow(query)
            /\ ( cpLast.op = "load" /\ cpLast.query = query ) => HasNow(query)

\* load(Q) has just run for a two-expression Q the oracle has no match for, and has(Q)
\* is true, while a query that was never loaded is not fresh.
C6_Witness ==
    /\ cachePolicy.enabled
    /\ cpLast.op = "load"
    /\ Len(cpLast.query) = 2
    /\ \A i \in 1..2 : ~OracleConfirms(cpLast.query[i])
    /\ HasNow(cpLast.query)
    /\ \E query \in Queries : KeysOf(query) \cap everLoaded = {} /\ ~HasNow(query)

\* C7 as stated: with expireIn = T, has(Q) is false as soon as an expression of Q
\* that the oracle has no match for was last loaded T or more ago, T itself included.
C7_ExpiresAtT ==
    ( cachePolicy.enabled /\ cachePolicy.expireIn # 0 ) =>
        \A query \in Queries :
            ( \E i \in 1..Len(query) :
                 /\ ~OracleConfirms(query[i])
                 /\ HasRecord(query[i])
                 /\ Age(query[i]) >= cachePolicy.expireIn )
            => ~HasNow(query)

\* C7, amended: with expireIn = T, has(Q) is false as soon as an expression of Q that
\* the oracle has no match for was last loaded more than T ago; at exactly T (and
\* before) the record still counts, and has(Q) is true if all of Q's records do.
C7_ExpiresAfterT ==
    ( cachePolicy.enabled /\ cachePolicy.expireIn # 0 ) =>
        \A query \in Queries :
            /\ ( \E i \in 1..Len(query) :
                    /\ ~OracleConfirms(query[i])
                    /\ HasRecord(query[i])
                    /\ Age(query[i]) > cachePolicy.expireIn )
               => ~HasNow(query)
            /\ ( \A i \in 1..Len(query) :
                    /\ HasRecord(query[i])
                    /\ Age(query[i]) <= cachePolicy.expireIn )
               => HasNow(query)

\* With an empty oracle, one query's record is exactly expireIn old and still fresh,
\* and another query's record is older and no longer fresh.
C7_Witness ==
    /\ cachePolicy.enabled /\ cachePolicy.expireIn # 0
    /\ OracleEmpty
    /\ \E query \in Queries :
          /\ Len(query) = 1 /\ HasRecord(query[1])
          /\ Age(query[1]) = cachePolicy.expireIn
          /\ HasNow(query)
    /\ \E query \in Queries :
          /\ Len(query) = 1 /\ HasRecord(query[1])
          /\ Age(query[1]) > cachePolicy.expireIn
          /\ ~HasNow(query)

\* The expression is fresh by its freshness record.
FreshByRecord(expression) ==
    /\ HasRecord(expression)
    /\ cachePolicy.expireIn = 0 \/ Age(expression) <= cachePolicy.expireIn

\* C8: has(query) is true only if the tracker is enabled and every expression of the
\* query is fresh by its record or confirmed by the oracle, and it is true if every
\* expression is fresh by its record or, having no record, confirmed by the oracle;
\* so a two-expression query with one expression neither loaded nor present is not
\* fresh.
C8_Conjunctive ==
    \A query \in Queries :
        /\ HasNow(query) =>
              /\ cachePolicy.enabled
              /\ \A i \in 1..Len(query) :
                    FreshByRecord(query[i]) \/ OracleConfirms(query[i])
        /\ ( /\ cachePolicy.enabled
             /\ \A i \in 1..Len(query) :
                   \/ FreshByRecord(query[i])
                   \/ ~HasRecord(query[i]) /\ OracleConfirms(query[i]) )
           => HasNow(query)

\* A two-expression query whose first expression is fresh and whose second is neither
\* loaded nor present: has() is true of the first expression alone, false of the query.
C8_Witness ==
    \E query \in Queries :
        /\ Len(query) = 2
        /\ FreshByRecord(query[1])
        /\ ~HasRecord(query[2]) /\ ~OracleConfirms(query[2])
        /\ HasNow(<<query[1]>>)
        /\ ~HasNow(query)

\* C9: clear() removes every freshness record and leaves the oracle as it was; after
\* it, with an empty oracle, has(Q) is false for every query Q.
C9_Clear ==
    [][ cpLast'.op = "clear" =>
          /\ DOMAIN cachePolicy'._loadedExpressions = {}
          /\ cache' = cache
          /\ cachePolicy'._cache = cachePolicy._cache
          /\ \A e \in Expressions :
                hasQueryExpressionInCache(cachePolicy', cache', e) = OracleConfirms(e)
          /\ OracleEmpty =>
                \A query \in Queries : ~has(cachePolicy', cache', now', query).result ]_vars

\* clear() has just run on an enabled tracker that had loaded queries, the oracle
\* being empty.
C9_Witness ==
    /\ cpLast.op = "clear"
    /\ cachePolicy.enabled
    /\ Cardinality(everLoaded) >= 2
    /\ OracleEmpty

\* C10: a disabled tracker holds no freshness record, whatever was loaded, and
\* has(query) is false for every query, whatever the oracle holds.
C10_Disabled ==
    ~cachePolicy.enabled =>
        /\ DOMAIN cachePolicy._loadedExpressions = {}
        /\ \A query \in Queries : ~HasNow(query)

\* load(Q) has just run on a disabled tracker, for a Q whose expressions the oracle
\* confirms.
C10_Witness ==
    /\ ~cachePolicy.enabled
    /\ cpLast.op = "load"
    /\ Len(cpLast.query) = 2
    /\ \A i \in 1..2 : OracleConfirms(cpLast.query[i])
    /\ KeysOf(cpLast.query) \subseteq everLoaded

(***************************************************************************)
(* Claims about the pessimistic strategy (checked under SpecPessimistic).  *)
(***************************************************************************)
\* The task is in the target's queue.
Queued(tq, id) == \E i \in 1..Len(tq.tasks) : tq.tasks[i].id = id

\* The freshness record of every expression of the query is of time t.
LoadedAt(cp, query, t) ==
    \A k \in KeysOf(query.expressions) :
        k \in DOMAIN cp._loadedExpressions /\ cp._loadedExpressions[k] = t

\* C11: with a pessimistic strategy (freshness tracker enabled), a query issued while
\* has(Q) is false pulls from the target and leaves the caller blocked on that pull;
\* the caller of a blocked query is released by nothing but the settling of that pull;
\* when the pull succeeds the caller resolves, with the target's result in hints.data
\* if the strategy passes hints and the caller gave a hints object, and has(Q) is true
\* in the state right after the success.
C11_ColdCacheBlocks ==
    [][ /\ \A query \in StrategyQueries, hintsObject \in BOOLEAN :
              PessimisticQuery(query, hintsObject) /\ ~HasNow(query.expressions) =>
                  /\ request'.state = "blocked"
                  /\ request'.query = query
                  /\ Queued(targetQueue', request'.task)
                  /\ ~Queued(targetQueue, request'.task)
        /\ request.state = "blocked" /\ request.kind = "query" /\ request' # request =>
              /\ InFlight
              /\ Head(targetQueue.tasks).id = request.task
              /\ ~Queued(targetQueue', request.task) \/ targetQueue'.halted
              /\ PessimisticSucceeds =>
                    /\ request' = [request EXCEPT !.state = "resolved"]
                    /\ request.hinted => hints' = "R"
                    /\ has(cachePolicy', cache', now', request.query.expressions).result
      ]_vars

\* The caller of a query issued on a cold cache, with the default predicates and a hints
\* object, has resolved on the success of the pull: hints.data is the target's result
\* and the query is fresh by its records, the oracle having no match.
C11_Witness ==
    /\ strategy.kind = "pessimistic"
    /\ strategy.shouldBackgroundReload = defaultShouldBackgroundReload
    /\ request.kind = "query" /\ request.state = "resolved" /\ request.hinted
    /\ stLast.op = "success" /\ stLast.awaited /\ stLast.task = request.task
    /\ hints = "R"
    /\ cache.records = {}
    /\ HasNow(request.query.expressions)

\* A background reload of the query is allowed: the caller gave the option
\* backgroundReload, or the predicate of every expression answers true.
BackgroundReloadAllowed(query) ==
    \/ query.options.backgroundReload
    \/ \A i \in 1..Len(query.expressions) :
          query.expressions[i].op \in strategy.shouldBackgroundReload

\* The last task of the target's queue.
LastTask(tq) == tq.tasks[Len(tq.tasks)]

\* C12: with a pessimistic strategy, a query issued while a background reload of it is
\* allowed and has(Q) is true is answered without waiting (the caller is not blocked),
\* and the pull of Q is nevertheless added to the target's queue; when a pull the
\* source did not wait for succeeds, the freshness record of every expression of its
\* query is of the time of the success, and the caller's request is left as it was.
C12_BackgroundReload ==
    [][ /\ \A query \in StrategyQueries, hintsObject \in BOOLEAN :
              /\ PessimisticQuery(query, hintsObject)
              /\ BackgroundReloadAllowed(query)
              /\ HasNow(query.expressions)
              => /\ request'.state = "resolved"
                 /\ request'.query = query
                 /\ Len(targetQueue'.tasks) = Len(targetQueue.tasks) + 1
                 /\ LastTask(targetQueue').type = "pull"
                 /\ LastTask(targetQueue').query = query
                 /\ ~LastTask(targetQueue').awaited
        /\ /\ PessimisticSucceeds
           /\ Head(targetQueue.tasks).type = "pull"
           /\ ~Head(targetQueue.tasks).awaited
           => /\ LoadedAt(cachePolicy', Head(targetQueue.tasks).query, now)
              /\ request' = request
              /\ hints' = hints
      ]_vars

\* A pull issued in the background for a query whose records were loaded before has
\* succeeded at a later time: the records are of that time.
C12_Witness ==
    /\ strategy.kind = "pessimistic"
    /\ stLast.op = "success" /\ stLast.type = "pull" /\ ~stLast.awaited
    /\ request.kind = "query" /\ request.state = "resolved" /\ request.task = NoTask
    /\ stLast.task = targetQueue.next - 1
    /\ targetQueue.next = 3
    /\ now > 1
    /\ LoadedAt(cachePolicy, request.query, now)

(***************************************************************************)
(* Claims about the optimistic strategy (checked under SpecOptimistic).    *)
(***************************************************************************)
\* C13 as stated: with an optimistic strategy that is offline, an update pushes to the
\* target all the same, and when the push of an update issued while offline fails with
\* a NetworkError, every retry the failure schedules has the delay maxDelay of the
\* retry policy.
C13_OfflineRetryAtMaxDelay ==
    [][ /\ \A transform \in StrategyTransforms :
              OptimisticUpdate(transform) /\ ~strategy._onLine =>
                  /\ Len(targetQueue'.tasks) = Len(targetQueue.tasks) + 1
                  /\ LastTask(targetQueue').type = "push"
        /\ /\ OptimisticFails("NetworkError")
           /\ stLast.op = "update"
           /\ ~strategy._onLine
           => \A t \in Scheduled(timers, timers') : t.delay = retryPolicy.maxDelay
      ]_vars

\* The push of an update issued while offline has failed with a NetworkError and a
\* retry is scheduled.
C13_Witness ==
    /\ strategy.kind = "optimistic"
    /\ stLast.op = "failure" /\ stLast.type = "push" /\ stLast.error = "NetworkError"
    /\ stLast.out.retryCalls > 0
    /\ ~strategy._onLine /\ ~navigatorOnLine
    /\ timers.pending # {}

\* C14 as stated: once the online flag of an optimistic strategy is false, it stays
\* false in every step but the window's online event, whatever requests succeed or fail.
C14_OfflineUntilSignal ==
    [][ ~strategy._onLine /\ strategy'._onLine => OnlineEvent ]_vars

\* C14, amended: once the online flag of an optimistic strategy is false, it stays false
\* through every failure of a request and through every success of a request while
\* navigator.onLine is false; it becomes true only by the window's online event or by
\* the success of a request while navigator.onLine is true, and every success of a
\* request sets it to navigator.onLine.
C14_OfflineUntilSignalOrSuccess ==
    [][ /\ ~strategy._onLine /\ strategy'._onLine =>
              OnlineEvent \/ (OptimisticSucceeds /\ navigatorOnLine)
        /\ OptimisticSucceeds => strategy'._onLine = navigatorOnLine
        /\ \A e \in Errors :
              OptimisticFails(e) /\ ~strategy._onLine => ~strategy'._onLine
      ]_vars

\* A request that failed and was retried has succeeded, and the strategy is online: no
\* timeout was cancelled, so no online event has reset the retry policy in between.
C14_Witness ==
    /\ strategy.kind = "optimistic"
    /\ stLast.op = "success"
    /\ fired # {} /\ cancelled = {}
    /\ strategy._onLine

(***************************************************************************)
(* The two strategies side by side.                                        *)
(***************************************************************************)
InitStrategies == InitPessimistic \/ InitOptimistic

\* The steps of NextPessimistic and of NextOptimistic, the shared ones written once.
NextStrategies ==
    \/ Activate
    \/ Deactivate
    \/ DeactivatedSucceeds
    \/ \E e \in Errors : DeactivatedFails(e)
    \/ \E query \in StrategyQueries, hintsObject \in BOOLEAN :
            PessimisticQuery(query, hintsObject)
    \/ \E transform \in StrategyTransforms, hintsObject \in BOOLEAN :
            PessimisticUpdate(transform, hintsObject)
    \/ PessimisticSucceeds
    \/ \E e \in Errors : PessimisticFails(e)
    \/ \E query \in { q \in StrategyQueries : ~q.options.backgroundReload } :
            OptimisticQuery(query)
    \/ \E transform \in StrategyTransforms : OptimisticUpdate(transform)
    \/ OptimisticSucceeds
    \/ \E e \in Errors : OptimisticFails(e)
    \/ \E t \in timers.pending : RequeueFires(t)
    \/ OnlineEvent
    \/ OfflineEvent
    \/ \E c \in SourceCacheStates : SourceChanges(c)
    \/ Elapses

SpecStrategies == InitStrategies /\ [][NextStrategies]_vars

(***************************************************************************)
(* Claims about both strategies (checked under SpecStrategies).            *)
(***************************************************************************)
\* The query must be reloaded: the caller gave the option reload, or the shouldReload
\* predicate of one of its expressions answers true.
MustReload(query) ==
    \/ query.options.reload
    \/ \E i \in 1..Len(query.expressions) :
          query.expressions[i].op \in strategy.shouldReload

\* C15: for a query that need not be reloaded, issued while has(Q) is false: an
\* optimistic strategy that is offline adds no pull to the target's queue, and the
\* source answers its caller from its cache, no listener having thrown; a pessimistic
\* strategy adds the pull and leaves the caller blocked on it, and when that pull
\* fails (as it does offline) the caller is rejected with the error.
C15_OfflineNotFresh ==
    [][ /\ \A query \in StrategyQueries :
              /\ strategy.kind = "optimistic" /\ stLast'.op = "query"
              /\ ~strategy._onLine /\ ~MustReload(query) /\ ~HasNow(query.expressions)
              /\ OptimisticQuery(query)
              => /\ targetQueue' = targetQueue
                 /\ request'.query = query
                 /\ request'.state = "resolved"
                 /\ stLast'.out.throws = 0
        /\ \A query \in StrategyQueries, hintsObject \in BOOLEAN :
              /\ strategy.kind = "pessimistic" /\ stLast'.op = "query"
              /\ ~MustReload(query) /\ ~HasNow(query.expressions)
              /\ PessimisticQuery(query, hintsObject)
              => /\ Len(targetQueue'.tasks) = Len(targetQueue.tasks) + 1
                 /\ LastTask(targetQueue').type = "pull"
                 /\ LastTask(targetQueue').query = query
                 /\ request'.query = query
                 /\ request'.state = "blocked"
                 /\ request'.task = LastTask(targetQueue').id
        /\ \A e \in Errors :
              /\ strategy.kind = "pessimistic" /\ stLast'.op = "failure"
              /\ request.kind = "query" /\ InFlight /\ Awaits(Head(targetQueue.tasks))
              /\ PessimisticFails(e)
              => request' = [request EXCEPT !.state = "rejected"]
      ]_vars

\* An optimistic strategy that is offline has answered a query that is not fresh
\* without a pull.
C15_Witness ==
    /\ strategy.kind = "optimistic"
    /\ ~strategy._onLine
    /\ stLast.op = "query" /\ ~stLast.pulled
    /\ request.kind = "query" /\ request.state = "resolved"
    /\ ~MustReload(request.query)
    /\ ~HasNow(request.query.expressions)
    /\ targetQueue.tasks = << >>

(***************************************************************************)
(* Claims about the pessimistic strategy, continued (SpecPessimistic).     *)
(***************************************************************************)
\* The retry policy allows another retry.
CanRetryNow == retryPolicy.enabled /\ retryPolicy._retries < retryPolicy.retries

\* C16 as stated: with a pessimistic strategy, whenever the target fails a pull or a
\* push with an error e that the retry predicate rejects, or while canRetry is false,
\* skip(e) is called on the source's and on the target's request queue and the error is
\* thrown, and the failed task is no longer in the target's queue, which goes on.
C16_FailureSkipsBothQueues ==
    [][ \A e \in Errors :
          /\ PessimisticFails(e)
          /\ ~CanRetryNow \/ e \notin strategy.shouldRetryQuery
          /\ ~CanRetryNow \/ e \notin strategy.shouldRetryUpdate
          => /\ stLast'.out.skipSource = 1
             /\ stLast'.out.skipTarget = 1
             /\ stLast'.out.throws = 1
             /\ ~Queued(targetQueue', Head(targetQueue.tasks).id)
             /\ ~targetQueue'.halted
      ]_vars

\* A pull the source did not wait for has failed with an error that is not retried: no
\* skip() was called and the pull is still at the head of the target's halted queue.
C16_Witness ==
    /\ strategy.kind = "pessimistic"
    /\ stLast.op = "failure" /\ stLast.type = "pull" /\ stLast.error = "ApplicationError"
    /\ ~stLast.awaited
    /\ stLast.out.skipSource = 0 /\ stLast.out.skipTarget = 0
    /\ targetQueue.halted
    /\ Head(targetQueue.tasks).id = stLast.task

(***************************************************************************)
(* Claims about the optimistic strategy, continued (SpecOptimistic).       *)
(***************************************************************************)
\* C17: with an optimistic strategy, when the target fails a push with an error the
\* retry predicate rejects, or while canRetry is false: for a blocking update the
\* handler throws the error, and a source that waits for the push rejects its caller;
\* for a non-blocking update the catch hook is called and nothing is thrown if the
\* strategy has a catch hook, and the handler throws the error if it has none.
C17_WriteFailureOutcome ==
    [][ \A e \in Errors :
          /\ OptimisticFails(e)
          /\ Head(targetQueue.tasks).type = "push"
          /\ ~CanRetryNow \/ e \notin strategy.shouldRetryUpdate
          => LET task == Head(targetQueue.tasks)
                 out  == stLast'.out
             IN  /\ out.retryCalls = 0
                 /\ task.transform.options.blocking =>
                        /\ out.throws >= 1 /\ out.catchCalls = 0
                        /\ Awaits(task) => request'.state = "rejected"
                 /\ ~task.transform.options.blocking /\ strategy.catch =>
                        out.catchCalls >= 1 /\ out.throws = 0
                 /\ ~task.transform.options.blocking /\ ~strategy.catch =>
                        out.throws >= 1
      ]_vars

\* The push of a non-blocking update has failed with an error that is not retried, and
\* the catch hook was called.
C17_Witness ==
    /\ strategy.kind = "optimistic"
    /\ stLast.op = "failure" /\ stLast.type = "push" /\ stLast.error = "ApplicationError"
    /\ stLast.out.retryCalls = 0
    /\ stLast.out.catchCalls = 1
    /\ stLast.out.throws = 0

\* The optimistic strategy has the options of the constructor's defaults.
DefaultOptimistic ==
    /\ strategy.kind = "optimistic"
    /\ ~strategy.catch
    /\ strategy.shouldReload = {}
    /\ strategy.shouldRetryQuery = defaultShouldRetryQuery

\* C18 as stated: with an optimistic strategy of default options, whenever the target
\* fails a pull, the pull is skipped on the target's queue (it is no longer queued),
\* and the caller's query is not rejected.
C18_FailedQueryDropped ==
    [][ \A e \in Errors :
          /\ OptimisticFails(e)
          /\ DefaultOptimistic
          /\ Head(targetQueue.tasks).type = "pull"
          => /\ stLast'.out.skipTarget >= 1
             /\ ~Queued(targetQueue', Head(targetQueue.tasks).id)
             /\ request'.state # "rejected"
      ]_vars

\* A pull of a strategy of default options has failed with a NetworkError: the handler
\* has scheduled a retry, has skipped nothing, and the pull is still at the head of the
\* target's queue.
C18_Witness ==
    /\ DefaultOptimistic
    /\ stLast.op = "failure" /\ stLast.type = "pull" /\ stLast.error = "NetworkError"
    /\ stLast.out.retryCalls >= 1
    /\ stLast.out.skipTarget = 0
    /\ Queued(targetQueue, stLast.task)
    /\ request.state # "rejected"

\* The step adds the pull of the query, and nothing else, to the target's queue.
AddsPull(query) ==
    /\ Len(targetQueue'.tasks) = Len(targetQueue.tasks) + 1
    /\ LastTask(targetQueue').type = "pull"
    /\ LastTask(targetQueue').query = query
    /\ SubSeq(targetQueue'.tasks, 1, Len(targetQueue.tasks)) = targetQueue.tasks

\* C19 as stated: a query of an optimistic strategy adds a pull to the target's queue
\* if and only if the query must be reloaded or has(Q) is false, and the strategy is
\* online; offline it adds none.
C19_PullOnlyOnline ==
    [][ \A query \in StrategyQueries :
          OptimisticQuery(query)
          => /\ AddsPull(query) <=>
                  /\ MustReload(query) \/ ~HasNow(query.expressions)
                  /\ strategy._onLine
             /\ ~strategy._onLine => targetQueue' = targetQueue
      ]_vars

\* C19, amended: a query of an optimistic strategy adds a pull to the target's queue
\* if and only if the query must be reloaded (online or offline), or has(Q) is false
\* and the strategy is online; a query that adds no pull leaves the queue as it was.
C19_PullOnReloadOrOnline ==
    [][ \A query \in StrategyQueries :
          OptimisticQuery(query)
          => /\ AddsPull(query) <=>
                  \/ MustReload(query)
                  \/ ~HasNow(query.expressions) /\ strategy._onLine
             /\ AddsPull(query) \/ targetQueue' = targetQueue
             /\ stLast'.pulled <=> AddsPull(query)
      ]_vars

\* An optimistic strategy that is offline has pulled for a query that must be reloaded.
C19_Witness ==
    /\ strategy.kind = "optimistic"
    /\ ~strategy._onLine
    /\ stLast.op = "query" /\ stLast.pulled
    /\ request.kind = "query" /\ MustReload(request.query)
    /\ Queued(targetQueue, stLast.task)

(***************************************************************************)
(* Claims about the pessimistic strategy, continued (SpecPessimistic).     *)
(***************************************************************************)
\* C20 as stated: a query of a pessimistic strategy adds a pull to the target's queue
\* if and only if the query must be reloaded (the option reload, or a reload predicate
\* true of one of its expressions) or has(Q) is false.
C20_PullOnReloadOrNotFresh ==
    [][ \A query \in StrategyQueries, hintsObject \in BOOLEAN :
          PessimisticQuery(query, hintsObject)
          => (AddsPull(query) <=> MustReload(query) \/ ~HasNow(query.expressions))
      ]_vars

\* C20, amended: a query of a pessimistic strategy adds a pull to the target's queue
\* if and only if the query must be reloaded, or a background reload of it is allowed
\* (the option backgroundReload, or the background-reload predicate, true by default,
\* true of all its expressions), or has(Q) is false; a query that adds no pull leaves
\* the queue as it was.
C20_PullOnReloadBackgroundOrNotFresh ==
    [][ \A query \in StrategyQueries, hintsObject \in BOOLEAN :
          PessimisticQuery(query, hintsObject)
          => /\ AddsPull(query) <=>
                  \/ MustReload(query)
                  \/ BackgroundReloadAllowed(query)
                  \/ ~HasNow(query.expressions)
             /\ AddsPull(query) \/ targetQueue' = targetQueue
             /\ stLast'.pulled <=> AddsPull(query)
      ]_vars

\* A pessimistic strategy has answered at once a query without a reload option that
\* need not be reloaded, and has pulled for it, because its background-reload predicate
\* allows it.
C20_Witness ==
    /\ strategy.kind = "pessimistic"
    /\ stLast.op = "query" /\ stLast.pulled
    /\ request.kind = "query" /\ request.state = "resolved"
    /\ ~MustReload(request.query)
    /\ BackgroundReloadAllowed(request.query)
    /\ ~request.query.options.backgroundReload
    /\ Queued(targetQueue, stLast.task)

(***************************************************************************)
(* Claims about both strategies, continued (SpecStrategies).               *)
(***************************************************************************)
\* The step adds the push of the transform, and nothing else, to the target's queue.
AddsPush(transform) ==
    /\ Len(targetQueue'.tasks) = Len(targetQueue.tasks) + 1
    /\ LastTask(targetQueue').type = "push"
    /\ LastTask(targetQueue').transform = transform
    /\ SubSeq(targetQueue'.tasks, 1, Len(targetQueue.tasks)) = targetQueue.tasks

\* C21: every update of the source adds its push to the target's queue, whether the
\* strategy is online or offline; with an optimistic strategy the caller is blocked on
\* that push if and only if the option blocking of the update is true, and with a
\* pessimistic strategy the caller is always blocked on it.
C21_UpdatePushes ==
    [][ \A transform \in StrategyTransforms :
          /\ OptimisticUpdate(transform)
             => /\ AddsPush(transform)
                /\ request'.state = "blocked" <=> transform.options.blocking
                /\ request'.state = "blocked" => request'.task = LastTask(targetQueue').id
                /\ request'.state \in {"blocked", "resolved"}
          /\ \A hintsObject \in BOOLEAN :
               PessimisticUpdate(transform, hintsObject)
               => /\ AddsPush(transform)
                  /\ request'.state = "blocked"
                  /\ request'.task = LastTask(targetQueue').id
      ]_vars

\* An optimistic strategy that is offline has pushed an update that is not blocking,
\* and the caller was answered at once.
C21_Witness ==
    /\ strategy.kind = "optimistic"
    /\ ~strategy._onLine
    /\ stLast.op = "update"
    /\ request.kind = "update" /\ ~request.transform.options.blocking
    /\ request.state = "resolved"
    /\ Queued(targetQueue, stLast.task)

(***************************************************************************)
(* Claims about the pessimistic strategy, continued (SpecPessimistic).     *)
(***************************************************************************)
\* C22: with a pessimistic strategy, the listener of a query or an update hands the
\* caller's hints to applyHint exactly when passHints is true, the caller gave a hints
\* object and the source waits for the target; hints.data becomes the target's result
\* exactly when the target fulfils a request the source waits for with such hints, in
\* the step that releases the caller; hints.data is written by no other step: not when
\* the target fails the request, not when the request is not waited for, not when
\* passHints is false.
C22_HintPropagation ==
    [][ /\ \A hintsObject \in BOOLEAN :
             /\ \A query \in StrategyQueries :
                  PessimisticQuery(query, hintsObject)
                  => /\ request'.hinted <=>
                          strategy.passHints /\ hintsObject /\ request'.state = "blocked"
                     /\ hints' = NoData
             /\ \A transform \in StrategyTransforms :
                  PessimisticUpdate(transform, hintsObject)
                  => /\ request'.hinted <=>
                          strategy.passHints /\ hintsObject /\ request'.state = "blocked"
                     /\ hints' = NoData
        /\ PessimisticSucceeds
           => IF Awaits(Head(targetQueue.tasks)) /\ request.hinted
              THEN hints' = "R" /\ request'.state = "resolved"
              ELSE hints' = hints
        /\ \A e \in Errors : PessimisticFails(e) => hints' = hints
        /\ hints' = "R"
           => strategy.passHints /\ request'.hinted /\ request'.state = "resolved"
      ]_vars

\* The target has fulfilled a query the source waited for, and the caller's hints hold
\* the target's result.
C22_Witness ==
    /\ strategy.kind = "pessimistic"
    /\ stLast.op = "success" /\ stLast.awaited
    /\ request.kind = "query" /\ request.state = "resolved"
    /\ hints = "R"

C24_DeactivateIgnoresInFlight ==
    [][ /\ Deactivate
           => /\ timers'.pending = {}
              /\ { t.id : t \in timers.pending } \subseteq cancelled'
              /\ cachePolicy'._loadedExpressions = EmptyMap
        /\ fired' \cap cancelled' = {}
        /\ DeactivatedSucceeds
           => /\ cachePolicy'._loadedExpressions = cachePolicy._loadedExpressions
              /\ retryPolicy' = retryPolicy
              /\ timers' = timers
      ]_vars

\* A pessimistic strategy was deactivated while a pull was in the target's queue, the
\* target has fulfilled the pull since, and the cache policy holds a freshness record.
C24_Witness ==
    /\ strategy.kind = "pessimistic"
    /\ ~strategy.active
    /\ stLast.op = "success" /\ stLast.type = "pull"
    /\ cachePolicy._loadedExpressions # EmptyMap

(***************************************************************************)
(* Claims about the strategy with a backup (SpecBackup).                   *)
(***************************************************************************)
\* C25 as stated: a strategy with a backup begins the restore once, and its listeners
\* handle a query or an update of the source only after the restore is complete (the
\* records of the backup are synced into the source).
C25_RestoreBeforeRequests ==
    [][ /\ strategy'.restores <= 1
        /\ \/ \E query \in StrategyQueries : OptimisticQuery(query)
           \/ \E transform \in StrategyTransforms : OptimisticUpdate(transform)
           => strategy.restore = "done"
      ]_vars

\* The listeners have handled a request of the source while the restore was under way:
\* the backup holds records and the source holds none yet.
C25_Witness ==
    /\ strategy.restore \in {"pulling", "syncing"}
    /\ request.kind # "none"
    /\ strategy.backup.records # {}
    /\ cache.records = {}

(***************************************************************************)
(* Claims about both strategies, continued (SpecStrategies).               *)
(***************************************************************************)
\* C26 as stated: with the default retry predicates, whenever the target of a
\* pessimistic or an optimistic strategy fails a pull or a push with the error e, a
\* retry is called, and a timeout of the retry policy is pending afterwards, if and only
\* if e is a NetworkError and canRetry holds.
C26_RetryIffNetworkError ==
    [][ \A e \in Errors :
          /\ PessimisticFails(e) \/ OptimisticFails(e)
          /\ strategy.shouldRetryQuery = defaultShouldRetryQuery
          /\ strategy.shouldRetryUpdate = defaultShouldRetryUpdate
          => ( stLast'.out.retryCalls >= 1 /\ timers'.pending # {}
               <=> e = "NetworkError" /\ CanRetryNow )
      ]_vars

\* The target of a pessimistic strategy has failed a request with a NetworkError while
\* canRetry held, and no retry is scheduled: the queue stays halted.
C26_Witness ==
    /\ strategy.kind = "pessimistic"
    /\ stLast.op = "failure" /\ stLast.error = "NetworkError"
    /\ stLast.out.retryCalls = 0
    /\ canRetry(retryPolicy)
    /\ timers.pending = {}
    /\ targetQueue.halted

(***************************************************************************)
(* Claims about the retry policy, continued (SpecRetry).                   *)
(***************************************************************************)
\* C27: retry() called while a retry is pending changes nothing: the attempt counter,
\* the timer the policy holds, the pending timeout (its callback and its delay) and the
\* number of timeouts ever scheduled are what they were, whatever callback and delay
\* the call is given; so however many calls arrive while one retry is pending, one
\* timeout is pending and one attempt was counted for it.
C27_PendingRetryNoOp ==
    [][ \A callback \in Callbacks, delay \in ExplicitDelays :
          Retry(callback, delay) /\ retryPolicy._retryTimer # NoTimer
          => /\ retryPolicy' = retryPolicy
             /\ timers' = timers
             /\ delayLog' = delayLog
             /\ Cardinality(timers'.pending) = 1
      ]_vars

\* retry() was called last, one timeout is pending, and timeouts have fired before.
C27_Witness ==
    /\ rpLast = "retry"
    /\ retryPolicy._retryTimer # NoTimer
    /\ Cardinality(timers.pending) = 1
    /\ retryPolicy._retries = 1
    /\ timers.next = 2

\* C28: when a scheduled retry fires, the timer field is cleared before the callback
\* runs: a callback that calls retry() schedules a new timeout, which the policy
\* holds, and the attempt counter grows by one; after a callback that does not call
\* retry() the policy holds no timer.
C28_RetryInsideCallback ==
    [][ \A t \in timers.pending :
          TimerFires(t)
          => IF t.callback = "cbRetry"
             THEN /\ Cardinality(Scheduled(timers, timers')) = 1
                  /\ \A n \in Scheduled(timers, timers') :
                        n.id = retryPolicy'._retryTimer /\ n.id # t.id
                  /\ retryPolicy'._retries = retryPolicy._retries + 1
                  /\ t \notin timers'.pending
             ELSE /\ retryPolicy'._retryTimer = NoTimer
                  /\ retryPolicy'._retries = retryPolicy._retries
                  /\ timers'.pending = timers.pending \ {t}
      ]_vars

\* A timeout has fired and its callback has called retry(): a new timeout is pending
\* and the attempt was counted.
C28_Witness ==
    /\ rpLast = "fire"
    /\ retryPolicy._retryTimer # NoTimer
    /\ Cardinality(timers.pending) = 1
    /\ retryPolicy._retries >= 2
    /\ cancelled = {}

\* C29: retry() does not look at canRetry: called while no retry is pending and
\* canRetry is false, it schedules the callback and counts the attempt all the same, so
\* the attempt counter goes past maxAttempts; and no step but reset() makes the attempt
\* counter smaller.
C29_RetryUncapped ==
    [][ /\ \A callback \in Callbacks, delay \in ExplicitDelays :
             /\ Retry(callback, delay)
             /\ retryPolicy._retryTimer = NoTimer
             /\ ~canRetry(retryPolicy)
             => /\ retryPolicy'._retries = retryPolicy._retries + 1
                /\ Cardinality(Scheduled(timers, timers')) = 1
                /\ ~canRetry(retryPolicy')
        /\ rpLast' # "reset" => retryPolicy'._retries >= retryPolicy._retries
      ]_vars

\* An enabled policy has counted more attempts than maxAttempts.
C29_Witness ==
    /\ retryPolicy.enabled
    /\ retryPolicy._retries > retryPolicy.retries
    /\ rpLast = "retry"
    /\ timers.pending # {}

(***************************************************************************)
(* Claims about the cache policy, continued (SpecCache).                   *)
(***************************************************************************)
\* The freshness record of the expression has expired.
Expired(expression) ==
    /\ cachePolicy.expireIn # 0
    /\ HasRecord(expression)
    /\ Age(expression) > cachePolicy.expireIn

C31_NeverExpires ==
    /\ []( ( cachePolicy.enabled /\ cachePolicy.expireIn = 0 ) =>
              \A query \in Queries :
                  KeysOf(query) \subseteq DOMAIN cachePolicy._loadedExpressions
                  => HasNow(query) )
    /\ [][ ( cachePolicy.enabled /\ cachePolicy.expireIn = 0 ) =>
              /\ cpLast'.op = "load" =>
                    KeysOf(cpLast'.query) \subseteq DOMAIN cachePolicy'._loadedExpressions
              /\ cpLast'.op # "clear" =>
                    DOMAIN cachePolicy._loadedExpressions
                        \subseteq DOMAIN cachePolicy'._loadedExpressions
          ]_vars

\* A tracker without expireIn holds a record loaded at the first clock reading, the
\* clock is at its last reading, the oracle has no match, and the query is fresh.
C31_Witness ==
    /\ cachePolicy.enabled /\ cachePolicy.expireIn = 0
    /\ now = MaxTime
    /\ OracleEmpty
    /\ \E query \in Queries :
          /\ Len(query) = 2
          /\ \A i \in 1..2 : HasRecord(query[i]) /\ Age(query[i]) = MaxTime - 1
          /\ HasNow(query)

(***************************************************************************)
(* Claims about the success of a target request (SpecStrategies).          *)
(***************************************************************************)
\* The retry policy is as reset() leaves it: no attempt counted and no retry pending.
RetryIsReset ==
    /\ retryPolicy'._retries = 0
    /\ retryPolicy'._retryTimer = NoTimer
    /\ timers'.pending = {}

\* The freshness records of the query are the ones load(query) writes now.
LoadedNow(query) ==
    cachePolicy.enabled =>
        \A k \in KeysOf(query.expressions) :
            /\ MapHas(cachePolicy'._loadedExpressions, k)
            /\ cachePolicy'._loadedExpressions[k] = now

\* C32 as stated: whenever the target of an active strategy, pessimistic or optimistic,
\* fulfils a pull, awaited by the source or not, the expressions of its query are loaded
\* into the cache policy and the retry policy is reset; whenever it fulfils a push, the
\* retry policy is reset.
C32_SuccessLoadsAndResets ==
    [][ PessimisticSucceeds \/ OptimisticSucceeds
        => /\ RetryIsReset
           /\ Head(targetQueue.tasks).type = "pull"
              => LoadedNow(Head(targetQueue.tasks).query)
      ]_vars

\* The target of a pessimistic strategy has fulfilled a pull it had failed before, and
\* the retry policy still counts the retry and the cache policy has no record of the
\* query.
C32_Witness ==
    /\ strategy.kind = "pessimistic" /\ strategy.active
    /\ stLast.op = "success" /\ stLast.type = "pull"
    /\ retryPolicy._retries > 0
    /\ cachePolicy._loadedExpressions = EmptyMap
    /\ targetQueue.tasks = << >>

(***************************************************************************)
(* Claims about the pessimistic strategy, continued (SpecPessimistic).     *)
(***************************************************************************)
\* C33 as stated: with a pessimistic strategy, the default retry predicates and an
\* enabled retry policy, every attempt of a request the caller waits for that the target
\* fails with a NetworkError either schedules a retry of the target's queue, the retries
\* scheduled staying within maxAttempts, or ends the request as failed: skip(e) on the
\* source's and on the target's request queue, the error thrown, and the task out of
\* the target's queue.
C33_RetriedThenFailed ==
    [][ /\ retryPolicy.enabled
        /\ strategy.shouldRetryQuery = defaultShouldRetryQuery
        /\ strategy.shouldRetryUpdate = defaultShouldRetryUpdate
        /\ InFlight /\ Head(targetQueue.tasks).awaited
        /\ PessimisticFails("NetworkError")
        => \/ /\ timers'.pending # {}
              /\ retryPolicy'._retries <= retryPolicy'.retries
           \/ /\ stLast'.out.skipSource = 1
              /\ stLast'.out.skipTarget = 1
              /\ stLast'.out.throws = 1
              /\ ~Queued(targetQueue', Head(targetQueue.tasks).id)
      ]_vars

\* The target has failed, with a NetworkError again, a request the caller waited for
\* and that the retry policy had retried: no retry is pending although canRetry holds,
\* skip() was called on no queue, and the request is at the head of the halted queue.
C33_Witness ==
    /\ strategy.kind = "pessimistic" /\ strategy.active
    /\ stLast.op = "failure" /\ stLast.error = "NetworkError"
    /\ targetQueue.halted
    /\ Head(targetQueue.tasks).id = stLast.task
    /\ Head(targetQueue.tasks).awaited
    /\ fired # {}
    /\ timers.pending = {}
    /\ canRetry(retryPolicy)
    /\ stLast.out.retryCalls = 0 /\ stLast.out.skipTarget = 0 /\ stLast.out.skipSource = 0

(***************************************************************************)
(* Claims about repeated has() (SpecCache).                                *)
(***************************************************************************)
\* C34 as stated: two has(Q) calls in a row, with no load, no clear, no change of the
\* cache's records and no time passing between them, return the same value.
C34_HasStable ==
    \A query \in Queries :
        LET first  == has(cachePolicy, cache, now, query)
            second == has(first.cp, cache, now, query)
        IN  first.result = second.result

\* The freshness record of an expression has expired and the cache holds the record
\* the expression asks for: the first has() deletes the freshness record and returns
\* false, the second one asks the cache and returns true.
C34_Witness ==
    /\ cachePolicy.enabled
    /\ \E e \in Expressions :
          /\ Expired(e) /\ OracleConfirms(e)
          /\ ~has(cachePolicy, cache, now, <<e>>).result
          /\ has(has(cachePolicy, cache, now, <<e>>).cp, cache, now, <<e>>).result

(***************************************************************************)
(* Claims about the two decisions of a query (SpecOptimistic).             *)
(***************************************************************************)
\* C35 as stated: with an optimistic strategy, when the beforeQuery listener of a query
\* that need not be reloaded issues a pull (the cache policy said the query is not
\* fresh), the caller is blocked on that pull.
C35_PullBlocksCaller ==
    [][ \A query \in StrategyQueries :
          /\ ~MustReload(query)
          /\ OptimisticQuery(query)
          /\ stLast'.pulled
          => /\ request'.state = "blocked"
             /\ request'.task = LastTask(targetQueue').id
      ]_vars

\* A query whose freshness record had expired while the source's cache holds its
\* records was pulled from the target, the caller was answered without waiting for the
\* pull, and the freshness record is gone.
C35_Witness ==
    /\ strategy.kind = "optimistic" /\ strategy.active
    /\ stLast.op = "query" /\ stLast.pulled /\ ~stLast.awaited
    /\ request.kind = "query" /\ request.state = "resolved"
    /\ ~MustReload(request.query)
    /\ \A i \in 1..Len(request.query.expressions) :
          /\ queryExpressionToCacheKey(request.query.expressions[i]) \in everLoaded
          /\ ~HasRecord(request.query.expressions[i])
          /\ OracleConfirms(request.query.expressions[i])

(***************************************************************************)
(* Claims about the failure handlers of the optimistic strategy            *)
(* (SpecOptimistic).                                                       *)
(***************************************************************************)
\* C36 as stated: with an optimistic strategy, one failure of a target request has the
\* effects of the failure handler at most once: at most one skip(e) on the target's
\* request queue, at most one on the source's, at most one call of the catch hook, at
\* most one error thrown and at most one timeout set.
C36_HandlerEffectsOnce ==
    [][ \A e \in Errors :
          OptimisticFails(e)
          => /\ stLast'.out.skipTarget <= 1
             /\ stLast'.out.skipSource <= 1
             /\ stLast'.out.catchCalls <= 1
             /\ stLast'.out.throws <= 1
             /\ Cardinality(Scheduled(timers, timers')) <= 1
      ]_vars

\* The target has failed a request the source waited for, and skip(e) was called on
\* the target's request queue more than once for that one failure.
C36_Witness ==
    /\ strategy.kind = "optimistic" /\ strategy.active
    /\ stLast.op = "failure" /\ stLast.awaited
    /\ stLast.out.handlerRuns >= 2
    /\ stLast.out.skipTarget >= 2

(***************************************************************************)
(* Claims about a pending retry (SpecStrategies).                          *)
(***************************************************************************)
\* A request the target failed is at the head of its halted queue and the retry of the
\* queue is pending.
RetryPending ==
    /\ strategy.active
    /\ targetQueue.halted
    /\ timers.pending # {}

\* The strategies with the timeouts of the retry policy firing: a timeout that stays
\* pending is run by the event loop.
SpecStrategiesFair ==
    SpecStrategies /\ WF_vars(\E t \in timers.pending : RequeueFires(t))

C38_UnretriedWriteSkipped ==
    [][ \A e \in Errors :
          /\ InFlight /\ Head(targetQueue.tasks).type = "push"
          /\ OptimisticFails(e)
          /\ stLast'.out.retryCalls = 0
          => /\ stLast'.out.skipTarget >= 1
             /\ ~Queued(targetQueue', Head(targetQueue.tasks).id)
             /\ ~targetQueue'.halted
      ]_vars

\* The target has failed a push that is not blocking, the failure was handed to the
\* catch hook, and skip() was not called: the failed push is at the head of the
\* halted queue, no retry is pending, and another request waits behind it.
C38_Witness ==
    /\ strategy.kind = "optimistic" /\ strategy.active /\ strategy.catch
    /\ stLast.op = "failure" /\ stLast.type = "push"
    /\ stLast.out.catchCalls >= 1
    /\ stLast.out.skipTarget = 0 /\ stLast.out.retryCalls = 0
    /\ targetQueue.halted
    /\ timers.pending = {}
    /\ Head(targetQueue.tasks).id = stLast.task
    /\ Len(targetQueue.tasks) >= 2

\* C39 as stated: with an optimistic strategy, the caller of an update with the option
\* blocking, blocked on the push, is released as resolved only by the step in which the
\* target fulfils that push; when the target fails the push the caller is rejected,
\* whether a retry is scheduled for the push or not.
C39_BlockingWriteWaits ==
    [][ /\ strategy.kind = "optimistic" /\ strategy.active
        /\ request.kind = "update" /\ request.state = "blocked"
        /\ request' # request
        => \/ /\ request'.state = "resolved"
              /\ stLast'.op = "success" /\ stLast'.task = request.task
              /\ ~Queued(targetQueue', request.task)
           \/ /\ request'.state = "rejected"
              /\ stLast'.op = "failure" /\ stLast'.task = request.task
      ]_vars

\* The target has failed a push the caller was blocked on, a retry of the push is
\* pending, the push is still in the target's queue, and the caller was resolved.
C39_Witness ==
    /\ strategy.kind = "optimistic" /\ strategy.active
    /\ stLast.op = "failure" /\ stLast.type = "push" /\ stLast.awaited
    /\ stLast.out.retryCalls >= 1 /\ stLast.out.throws = 0
    /\ timers.pending # {}
    /\ Queued(targetQueue, stLast.task)
    /\ request.kind = "update" /\ request.transform.options.blocking
    /\ request.task = stLast.task
    /\ request.state = "resolved"

(***************************************************************************)
(* Claims about the option reload of a query (SpecPessimistic).            *)
(***************************************************************************)
\* C40 as stated: with a pessimistic strategy and the default predicates, a query that
\* carries the option reload is pulled from the target and its caller is blocked on
\* that pull, also when has(Q) is true.
C40_ReloadBlocks ==
    [][ \A query \in StrategyQueries, hintsObject \in BOOLEAN :
          /\ query.options.reload
          /\ strategy.shouldReload = {}
          /\ strategy.shouldBackgroundReload = defaultShouldBackgroundReload
          /\ PessimisticQuery(query, hintsObject)
          => /\ stLast'.pulled
             /\ request'.state = "blocked"
             /\ request'.task = LastTask(targetQueue').id
      ]_vars

\* A query with the option reload, issued with the default predicates while has(Q) was
\* true, was pulled from the target and its caller was answered without waiting.
C40_Witness ==
    /\ strategy.kind = "pessimistic" /\ strategy.active
    /\ strategy.shouldReload = {}
    /\ strategy.shouldBackgroundReload = defaultShouldBackgroundReload
    /\ stLast.op = "query" /\ stLast.pulled /\ ~stLast.awaited
    /\ request.kind = "query" /\ request.state = "resolved"
    /\ request.query.options.reload
    /\ ~request.query.options.backgroundReload
    /\ HasNow(request.query.expressions)

====
